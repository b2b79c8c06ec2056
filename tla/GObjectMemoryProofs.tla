------------------------ MODULE GObjectMemoryProofs ------------------------
(***************************************************************************)
(* References, handlers and connections balance for any number of objects, *)
(* smart pointers, connections and ids.                                    *)
(***************************************************************************)
EXTENDS GObjectMemory, FiniteSetTheorems, TLAPS

BlocksOf(blocks, o)       == {b \in Block : blocks[b] = o}
AssignersOf(assigners, o) == {s \in Slot : o \in assigners[s]}

\* ReferencesAreOwned, of any counts and owners
Counted(counts, raws, blocks, assigners) ==
  \A o \in Object :
    counts[o] = Cardinality({o} \cap raws) + Cardinality(BlocksOf(blocks, o))
                  + Cardinality(AssignersOf(assigners, o))

Blocks == [Block -> Object \cup {None}]
Slots  == [Slot -> Block \cup {None}]
Conns  == [Connection -> [initialized : BOOLEAN, handle : Id \cup {0}, obj : Block \cup {None}]]
Assigners(a) == a \in [Slot -> {{x} : x \in Object \cup {None}} \cup {{}}]

\* A block that somebody holds has an object.
Alive(blocks, slots, conns) ==
  /\ \A s \in Slot : slots[s] # None => blocks[slots[s]] \in Object
  /\ \A c \in Connection : conns[c].obj # None => blocks[conns[c].obj] \in Object

\* What a connection is going to disconnect its handle from
Targets(blocks, x) == IF x.obj # None THEN {blocks[x.obj]} ELSE {MainContext, Over}

(* Every handler has one owner: the program that has its id, or one        *)
(* connection, which would disconnect it from its own object.              *)
Connected(blocks, conns, connected, given) ==
  /\ given \subseteq DOMAIN connected
  /\ DOMAIN connected \subseteq Id
  /\ \A i \in DOMAIN connected : connected[i] \in Object \cup {MainContext, Over}
  /\ \A c \in Connection : ~conns[c].initialized => conns[c].handle = 0
  /\ \A c \in Connection : conns[c].handle # 0 =>
       /\ conns[c].handle \in DOMAIN connected \ given
       /\ connected[conns[c].handle] \in Targets(blocks, conns[c])
  /\ \A c, d \in Connection : conns[c].handle # 0 /\ conns[c].handle = conns[d].handle => c = d
  /\ \A i \in DOMAIN connected \ given : \E c \in Connection : conns[c].handle = i

Ids == lastId \in 0 .. MaxId /\ \A i \in DOMAIN handlers : i <= lastId

IInv ==
  /\ refs \in [Object -> Nat] /\ raw \subseteq Object /\ floating \subseteq raw
  /\ block \in Blocks /\ slot \in Slots /\ Assigners(assigner) /\ conn \in Conns
  /\ Counted(refs, raw, block, assigner)
  /\ Alive(block, slot, conn)
  /\ Connected(block, conn, handlers, ids)
  /\ Ids

-----------------------------------------------------------------------------
\* The sets that are counted are finite.
LEMMA Finite ==
  ASSUME NEW blocks, NEW assigners, NEW o
  PROVE  /\ IsFiniteSet(BlocksOf(blocks, o)) /\ Cardinality(BlocksOf(blocks, o)) \in Nat
         /\ IsFiniteSet(AssignersOf(assigners, o)) /\ Cardinality(AssignersOf(assigners, o)) \in Nat
         /\ \A raws : Cardinality({o} \cap raws) = IF o \in raws THEN 1 ELSE 0
  <1>1. IsFiniteSet(BlocksOf(blocks, o)) /\ IsFiniteSet(AssignersOf(assigners, o))
    BY ConnectionAssumption, FS_Subset DEF BlocksOf, AssignersOf
  <1>2. Cardinality(BlocksOf(blocks, o)) \in Nat /\ Cardinality(AssignersOf(assigners, o)) \in Nat
    BY <1>1, FS_CardinalityType
  <1>3. ASSUME NEW raws PROVE Cardinality({o} \cap raws) = IF o \in raws THEN 1 ELSE 0
    <2>1. CASE o \in raws
      <3>1. {o} \cap raws = {o}
        BY <2>1
      <3> QED BY <2>1, <3>1, FS_Singleton
    <2>2. CASE o \notin raws
      <3>1. {o} \cap raws = {}
        BY <2>2
      <3> QED BY <2>2, <3>1, FS_EmptySet
    <2> QED BY <2>1, <2>2
  <1> QED BY <1>1, <1>2, <1>3

\* An object that a block stands for has a reference.
LEMMA Counts ==
  ASSUME NEW counts, NEW raws, NEW blocks, NEW assigners, Counted(counts, raws, blocks, assigners),
         NEW o \in Object
  PROVE  /\ counts[o] \in Nat
         /\ o \in raws \/ BlocksOf(blocks, o) # {} => counts[o] > 0
  <1>1. counts[o] = Cardinality({o} \cap raws) + Cardinality(BlocksOf(blocks, o))
                      + Cardinality(AssignersOf(assigners, o))
    BY DEF Counted
  <1>2. Cardinality({o} \cap raws) = IF o \in raws THEN 1 ELSE 0
    BY Finite
  <1>3. /\ Cardinality(BlocksOf(blocks, o)) \in Nat /\ Cardinality(AssignersOf(assigners, o)) \in Nat
        /\ BlocksOf(blocks, o) # {} => Cardinality(BlocksOf(blocks, o)) # 0
    BY Finite, FS_EmptySet
  <1> QED BY <1>1, <1>2, <1>3

\* Settle restores what its arguments promise.
LEMMA SettleKeeps ==
  ASSUME NEW counts \in [Object -> Int], NEW blocks \in Blocks, NEW slots \in Slots, NEW conns \in Conns,
         NEW connected, NEW given,
         Settle(counts, blocks, slots, conns, connected, given),
         raw' \subseteq Object, floating' \subseteq raw', Assigners(assigner'),
         Counted(counts, raw', blocks, assigner'),
         Alive(blocks, slots, conns),
         Connected(blocks, conns, connected, given),
         lastId' \in 0 .. MaxId, \A i \in DOMAIN connected : i <= lastId'
  PROVE  IInv'
  <1> DEFINE held == {slots[s] : s \in Slot} \cup {conns[c].obj : c \in Connection}
             dead == {b \in Block : blocks[b] # None /\ b \notin held}
             left == [o \in Object |-> counts[o] - Cardinality({b \in dead : blocks[b] = o})]
             kept == {i \in DOMAIN connected : connected[i] \in Object => left[connected[i]] > 0}
  <1>1. /\ slot' = slots /\ conn' = conns /\ refs' = left
        /\ block' = [b \in Block |-> IF b \in dead THEN None ELSE blocks[b]]
        /\ handlers' = Restrict(connected, kept) /\ ids' = given \cap DOMAIN handlers'
    BY DEF Settle
  <1>2. /\ DOMAIN handlers' = kept /\ \A i \in kept : handlers'[i] = connected[i]
        /\ kept \subseteq DOMAIN connected
    BY <1>1 DEF Restrict
  <1>3. block' \in Blocks
    BY <1>1 DEF Blocks
  <1>4. Alive(block', slot', conn')
    <2>1. ASSUME NEW s \in Slot, slots[s] # None PROVE block'[slots[s]] = blocks[slots[s]]
      BY <1>1, <2>1 DEF Slots
    <2>2. ASSUME NEW c \in Connection, conns[c].obj # None
          PROVE  block'[conns[c].obj] = blocks[conns[c].obj]
      BY <1>1, <2>2 DEF Conns
    <2> QED BY <1>1, <2>1, <2>2 DEF Alive
  <1>5. ASSUME NEW o \in Object
        PROVE  /\ BlocksOf(block', o) = BlocksOf(blocks, o) \ {b \in dead : blocks[b] = o}
               /\ left[o] = Cardinality({o} \cap raw') + Cardinality(BlocksOf(block', o))
                            + Cardinality(AssignersOf(assigner', o))
    <2>1. o # None
      BY ConnectionAssumption
    <2>2. PICK D : D = {b \in dead : blocks[b] = o}
      OBVIOUS
    <2>3. BlocksOf(block', o) = BlocksOf(blocks, o) \ D /\ BlocksOf(blocks, o) \cap D = D
      BY <1>1, <2>1, <2>2 DEF BlocksOf
    <2>4. /\ IsFiniteSet(BlocksOf(blocks, o)) /\ IsFiniteSet(D)
          /\ Cardinality(BlocksOf(block', o)) = Cardinality(BlocksOf(blocks, o)) - Cardinality(D)
      <3>1. IsFiniteSet(BlocksOf(blocks, o))
        BY Finite
      <3>2. D \in SUBSET BlocksOf(blocks, o)
        BY <2>3
      <3>3. IsFiniteSet(D)
        BY <3>1, <3>2, FS_Subset
      <3>4. Cardinality(BlocksOf(blocks, o) \ D)
              = Cardinality(BlocksOf(blocks, o)) - Cardinality(BlocksOf(blocks, o) \cap D)
        BY <3>1, FS_Difference
      <3> QED BY <2>3, <3>1, <3>3, <3>4
    <2>5. /\ Cardinality(BlocksOf(blocks, o)) \in Nat /\ Cardinality(D) \in Nat
          /\ Cardinality(AssignersOf(assigner', o)) \in Nat /\ Cardinality({o} \cap raw') \in Nat
      <3>1. Cardinality({o} \cap raw') = IF o \in raw' THEN 1 ELSE 0
        BY Finite
      <3>2. Cardinality(D) \in Nat
        BY <2>4, FS_CardinalityType
      <3> QED BY <3>1, <3>2, Finite
    <2>6. counts[o] = Cardinality({o} \cap raw') + Cardinality(BlocksOf(blocks, o))
                        + Cardinality(AssignersOf(assigner', o))
      BY DEF Counted
    <2>7. left[o] = counts[o] - Cardinality(D)
      BY <2>2
    <2> QED BY <2>2, <2>3, <2>4, <2>5, <2>6, <2>7
  <1>6. Counted(refs', raw', block', assigner')
    BY <1>1, <1>5 DEF Counted
  <1>7. refs' \in [Object -> Nat]
    <2>1. \A o \in Object : refs'[o] \in Nat
      BY <1>6, Counts
    <2> QED BY <1>1, <2>1
  <1>8. ASSUME NEW c \in Connection, conns[c].handle # 0
        PROVE  conns[c].handle \in kept /\ Targets(block', conns[c]) = Targets(blocks, conns[c])
    <2>1. conns[c].handle \in DOMAIN connected /\ connected[conns[c].handle] \in Targets(blocks, conns[c])
      BY <1>8 DEF Connected
    <2>2. CASE conns[c].obj = None
      BY <2>1, <2>2, ConnectionAssumption DEF Targets
    <2>3. CASE conns[c].obj # None
      <3>1. /\ connected[conns[c].handle] = blocks[conns[c].obj] /\ blocks[conns[c].obj] \in Object
            /\ conns[c].obj \in Block
        BY <2>1, <2>3 DEF Targets, Alive, Conns
      <3>2. block'[conns[c].obj] = blocks[conns[c].obj]
        BY <1>1, <3>1
      <3>3. BlocksOf(block', blocks[conns[c].obj]) # {}
        BY <3>1, <3>2 DEF BlocksOf
      <3>4. left[blocks[conns[c].obj]] > 0
        BY <1>1, <1>6, <3>1, <3>3, Counts
      <3> QED BY <2>1, <2>3, <3>1, <3>2, <3>4 DEF Targets
    <2> QED BY <2>2, <2>3
  <1>9. Connected(block', conn', handlers', ids')
    BY <1>1, <1>2, <1>8 DEF Connected
  <1>10. Ids'
    BY <1>2 DEF Ids
  <1>11. slot' \in Slots /\ conn' \in Conns
    BY <1>1
  <1> QED BY <1>3, <1>4, <1>6, <1>7, <1>9, <1>10, <1>11 DEF IInv

-----------------------------------------------------------------------------
(* Objects and smart pointers.                                             *)

LEMMA NewStep ==
  ASSUME IInv, NEW o \in Object, New(o)
  PROVE  IInv'
  <1>1. refs' = [refs EXCEPT ![o] = 1] /\ raw' = raw \cup {o} /\ refs[o] = 0
        /\ UNCHANGED <<block, slot, assigner, conn, handlers, ids, lastId>>
    BY DEF New
  <1>2. ASSUME NEW q \in Object
        PROVE  refs'[q] = Cardinality({q} \cap raw') + Cardinality(BlocksOf(block, q))
                            + Cardinality(AssignersOf(assigner, q))
    <2>1. /\ Cardinality({q} \cap raw) = IF q \in raw THEN 1 ELSE 0
          /\ Cardinality({q} \cap raw') = IF q \in raw' THEN 1 ELSE 0
          /\ Cardinality(BlocksOf(block, q)) \in Nat /\ Cardinality(AssignersOf(assigner, q)) \in Nat
      BY Finite
    <2>2. refs[q] = Cardinality({q} \cap raw) + Cardinality(BlocksOf(block, q))
                      + Cardinality(AssignersOf(assigner, q))
      BY DEF IInv, Counted
    <2>3. refs'[q] = IF q = o THEN 1 ELSE refs[q]
      BY <1>1 DEF IInv
    <2> QED BY <1>1, <2>1, <2>2, <2>3
  <1>3. Counted(refs', raw', block', assigner')
    BY <1>1, <1>2 DEF Counted
  <1> QED BY <1>1, <1>3 DEF New, IInv, Ids

LEMMA SinkStep ==
  ASSUME IInv, NEW o \in Object, Sink(o)
  PROVE  IInv'
  BY DEF Sink, IInv, Ids

LEMMA RefStep ==
  ASSUME IInv, NEW o \in Object, Ref(o)
  PROVE  IInv'
  <1>1. refs' = [refs EXCEPT ![o] = @ + 1] /\ raw' = raw \cup {o} /\ o \notin raw
        /\ UNCHANGED <<floating, block, slot, assigner, conn, handlers, ids, lastId>>
    BY DEF Ref
  <1>2. ASSUME NEW q \in Object
        PROVE  refs'[q] = Cardinality({q} \cap raw') + Cardinality(BlocksOf(block, q))
                            + Cardinality(AssignersOf(assigner, q))
    <2>1. /\ Cardinality({q} \cap raw) = IF q \in raw THEN 1 ELSE 0
          /\ Cardinality({q} \cap raw') = IF q \in raw' THEN 1 ELSE 0
          /\ Cardinality(BlocksOf(block, q)) \in Nat /\ Cardinality(AssignersOf(assigner, q)) \in Nat
      BY Finite
    <2>2. refs[q] = Cardinality({q} \cap raw) + Cardinality(BlocksOf(block, q))
                      + Cardinality(AssignersOf(assigner, q))
      BY DEF IInv, Counted
    <2>3. refs'[q] = IF q = o THEN refs[q] + 1 ELSE refs[q]
      BY <1>1 DEF IInv
    <2> QED BY <1>1, <2>1, <2>2, <2>3
  <1>3. Counted(refs', raw', block', assigner')
    BY <1>1, <1>2 DEF Counted
  <1>4. refs' \in [Object -> Nat]
    BY <1>1 DEF IInv
  <1> QED BY <1>1, <1>3, <1>4 DEF IInv, Ids

LEMMA UnrefStep ==
  ASSUME IInv, NEW o \in Object, Unref(o)
  PROVE  IInv'
  <1>1. PICK counts : counts = [refs EXCEPT ![o] = @ - 1]
    OBVIOUS
  <1>2. PICK blocks, slots, conns, connected, given :
          blocks = block /\ slots = slot /\ conns = conn /\ connected = handlers /\ given = ids
    OBVIOUS
  <1>3. /\ Settle(counts, blocks, slots, conns, connected, given)
        /\ o \in raw /\ raw' = raw \ {o} /\ floating' = floating \ {o} /\ UNCHANGED <<assigner, lastId>>
    BY <1>1, <1>2 DEF Unref
  <1>4. ASSUME NEW q \in Object
        PROVE  counts[q] = Cardinality({q} \cap raw') + Cardinality(BlocksOf(blocks, q))
                             + Cardinality(AssignersOf(assigner', q))
    <2>1. /\ Cardinality({q} \cap raw) = IF q \in raw THEN 1 ELSE 0
          /\ Cardinality({q} \cap raw') = IF q \in raw' THEN 1 ELSE 0
          /\ Cardinality(BlocksOf(blocks, q)) \in Nat /\ Cardinality(AssignersOf(assigner, q)) \in Nat
      BY Finite
    <2>2. refs[q] = Cardinality({q} \cap raw) + Cardinality(BlocksOf(blocks, q))
                      + Cardinality(AssignersOf(assigner, q))
      BY <1>2 DEF IInv, Counted
    <2>3. counts[q] = IF q = o THEN refs[q] - 1 ELSE refs[q]
      BY <1>1 DEF IInv
    <2> QED BY <1>3, <2>1, <2>2, <2>3
  <1>5. Counted(counts, raw', blocks, assigner')
    BY <1>4 DEF Counted
  <1>6. counts \in [Object -> Int]
    BY <1>1 DEF IInv
  <1> QED BY <1>2, <1>3, <1>5, <1>6, SettleKeeps DEF IInv, Ids

\* A block that is free takes over a reference, from the program or from an
\* assigner, and is assigned to s.
LEMMA TakeOver ==
  ASSUME IInv, NEW s \in Slot, NEW o \in Object, NEW b \in Free,
         Settle(refs, [block EXCEPT ![b] = o], [slot EXCEPT ![s] = b], conn, handlers, ids),
         raw' \subseteq Object, floating' \subseteq raw', Assigners(assigner'), UNCHANGED lastId,
         \A q \in Object :
           Cardinality({q} \cap raw') + Cardinality(AssignersOf(assigner', q))
             = Cardinality({q} \cap raw) + Cardinality(AssignersOf(assigner, q))
                 - (IF q = o THEN 1 ELSE 0)
  PROVE  IInv'
  <1>1. PICK counts, blocks, slots, conns, connected, given :
          /\ counts = refs /\ conns = conn /\ connected = handlers /\ given = ids
          /\ blocks = [block EXCEPT ![b] = o] /\ slots = [slot EXCEPT ![s] = b]
    OBVIOUS
  <1>2. Settle(counts, blocks, slots, conns, connected, given)
    BY <1>1
  <1>3. /\ b \in Block /\ block[b] = None /\ b # None
        /\ \A q \in Object : q # None
    BY ConnectionAssumption DEF Free
  <1>4. blocks \in Blocks /\ slots \in Slots /\ counts \in [Object -> Int] /\ conns \in Conns
    BY <1>1, <1>3 DEF IInv, Blocks, Slots
  <1>5. \A q \in Block : blocks[q] = IF q = b THEN o ELSE block[q]
    BY <1>1, <1>3 DEF IInv, Blocks
  <1>6. ASSUME NEW q \in Object
        PROVE  counts[q] = Cardinality({q} \cap raw') + Cardinality(BlocksOf(blocks, q))
                             + Cardinality(AssignersOf(assigner', q))
    <2>1. Cardinality(BlocksOf(blocks, q)) = Cardinality(BlocksOf(block, q)) + IF q = o THEN 1 ELSE 0
      <3>1. BlocksOf(blocks, q) = IF q = o THEN BlocksOf(block, q) \cup {b} ELSE BlocksOf(block, q)
        BY <1>3, <1>5 DEF BlocksOf
      <3>2. b \notin BlocksOf(block, q)
        BY <1>3 DEF BlocksOf
      <3>3. IsFiniteSet(BlocksOf(block, q)) /\ Cardinality(BlocksOf(block, q)) \in Nat
        BY Finite
      <3>4. Cardinality(BlocksOf(block, q) \cup {b}) = Cardinality(BlocksOf(block, q)) + 1
        BY <3>2, <3>3, FS_AddElement
      <3> QED BY <3>1, <3>3, <3>4
    <2>2. refs[q] = Cardinality({q} \cap raw) + Cardinality(BlocksOf(block, q))
                      + Cardinality(AssignersOf(assigner, q))
      BY DEF IInv, Counted
    <2>3. /\ Cardinality({q} \cap raw) \in Nat /\ Cardinality({q} \cap raw') \in Nat
          /\ Cardinality(BlocksOf(block, q)) \in Nat /\ Cardinality(AssignersOf(assigner, q)) \in Nat
          /\ Cardinality(AssignersOf(assigner', q)) \in Nat
      <3>1. /\ Cardinality({q} \cap raw) = IF q \in raw THEN 1 ELSE 0
            /\ Cardinality({q} \cap raw') = IF q \in raw' THEN 1 ELSE 0
        BY Finite
      <3>2. Cardinality(BlocksOf(block, q)) \in Nat /\ Cardinality(AssignersOf(assigner, q)) \in Nat
        BY Finite
      <3>3. Cardinality(AssignersOf(assigner', q)) \in Nat
        BY Finite
      <3> QED BY <3>1, <3>2, <3>3
    <2>4. /\ Cardinality({q} \cap raw') + Cardinality(AssignersOf(assigner', q))
               = Cardinality({q} \cap raw) + Cardinality(AssignersOf(assigner, q))
                   - (IF q = o THEN 1 ELSE 0)
          /\ counts[q] = refs[q]
      BY <1>1
    <2> QED BY <2>1, <2>2, <2>3, <2>4
  <1>7. Counted(counts, raw', blocks, assigner')
    BY <1>6 DEF Counted
  <1>8. Alive(blocks, slots, conns)
    <2>1. ASSUME NEW q \in Slot, slots[q] # None PROVE blocks[slots[q]] \in Object
      BY <1>1, <1>3, <1>5, <2>1 DEF IInv, Alive, Slots
    <2>2. ASSUME NEW c \in Connection, conns[c].obj # None PROVE blocks[conns[c].obj] \in Object
      BY <1>1, <1>5, <2>2 DEF IInv, Alive, Conns
    <2> QED BY <2>1, <2>2 DEF Alive
  <1>9. Connected(blocks, conns, connected, given)
    <2>1. ASSUME NEW c \in Connection PROVE Targets(blocks, conns[c]) = Targets(block, conns[c])
      <3>1. conns[c].obj # None => conns[c].obj # b /\ conns[c].obj \in Block
        BY <1>1, <1>3 DEF IInv, Alive, Conns
      <3> QED BY <1>5, <3>1 DEF Targets
    <2>2. Connected(block, conns, connected, given)
      BY <1>1 DEF IInv
    <2> QED BY <2>1, <2>2 DEF Connected
  <1>10. lastId' \in 0 .. MaxId /\ \A i \in DOMAIN connected : i <= lastId'
    BY <1>1 DEF IInv, Ids
  <1> QED BY <1>2, <1>4, <1>7, <1>8, <1>9, <1>10, SettleKeeps

LEMMA ShareStep ==
  ASSUME IInv, NEW s \in Slot, NEW o \in Object, NEW b \in Block, Share(s, o, b)
  PROVE  IInv'
  <1>1. ASSUME NEW q \in Object
        PROVE  Cardinality({q} \cap raw') + Cardinality(AssignersOf(assigner', q))
                 = Cardinality({q} \cap raw) + Cardinality(AssignersOf(assigner, q))
                     - (IF q = o THEN 1 ELSE 0)
    <2>1. raw' = raw \ {o} /\ o \in raw /\ assigner' = assigner
      BY DEF Share
    <2>2. /\ Cardinality({q} \cap raw) = IF q \in raw THEN 1 ELSE 0
          /\ Cardinality({q} \cap raw') = IF q \in raw' THEN 1 ELSE 0
          /\ Cardinality(AssignersOf(assigner, q)) \in Nat
      BY Finite
    <2> QED BY <2>1, <2>2
  <1>2. /\ raw' \subseteq Object /\ floating' \subseteq raw' /\ Assigners(assigner')
        /\ UNCHANGED lastId /\ b \in Free
        /\ Settle(refs, [block EXCEPT ![b] = o], [slot EXCEPT ![s] = b], conn, handlers, ids)
    BY DEF Share, IInv
  <1> QED BY <1>1, <1>2, TakeOver

\* Smart pointers change, and what they point to is alive.
LEMMA SetSlotKeeps ==
  ASSUME IInv, NEW s \in Slot, NEW b \in Block \cup {None}, b # None => block[b] \in Object,
         SetSlot(s, b), UNCHANGED <<raw, floating, lastId>>, Assigners(assigner'),
         \A q \in Object : AssignersOf(assigner', q) = AssignersOf(assigner, q)
  PROVE  IInv'
  <1>1. PICK counts, blocks, slots, conns, connected, given :
          /\ counts = refs /\ blocks = block /\ conns = conn /\ connected = handlers /\ given = ids
          /\ slots = [slot EXCEPT ![s] = b]
    OBVIOUS
  <1>2. Settle(counts, blocks, slots, conns, connected, given)
    BY <1>1 DEF SetSlot
  <1>3. slots \in Slots /\ Alive(blocks, slots, conns)
    BY <1>1 DEF IInv, Slots, Alive
  <1>4. Counted(counts, raw', blocks, assigner')
    BY <1>1 DEF IInv, Counted
  <1> QED BY <1>1, <1>2, <1>3, <1>4, SettleKeeps DEF IInv, Ids

LEMMA CopyStep ==
  ASSUME IInv, NEW s \in Slot, NEW q \in Slot, Copy(s, q)
  PROVE  IInv'
  <1>1. PICK b : b = slot[q]
    OBVIOUS
  <1>2. b \in Block \cup {None} /\ (b # None => block[b] \in Object)
    BY <1>1 DEF IInv, Slots, Alive
  <1>3. SetSlot(s, b) /\ UNCHANGED <<raw, floating, assigner, lastId>>
    BY <1>1 DEF Copy, outside
  <1> QED BY <1>2, <1>3, SetSlotKeeps DEF IInv

LEMMA ResetStep ==
  ASSUME IInv, NEW s \in Slot, Reset(s) \/ MoveAssigner(s)
  PROVE  IInv'
  BY SetSlotKeeps DEF IInv, Reset, MoveAssigner, outside

LEMMA AssignStep ==
  ASSUME IInv, NEW s \in Slot, Assign(s)
  PROVE  IInv'
  <1>1. /\ assigner[s] = {} /\ assigner' = [assigner EXCEPT ![s] = {None}]
        /\ UNCHANGED <<refs, raw, floating, block, slot, conn, handlers, ids, lastId>>
    BY DEF Assign
  <1>2. \A q \in Slot : assigner'[q] = IF q = s THEN {None} ELSE assigner[q]
    BY <1>1 DEF IInv, Assigners
  <1>3. ASSUME NEW o \in Object PROVE AssignersOf(assigner', o) = AssignersOf(assigner, o)
    BY <1>1, <1>2, ConnectionAssumption DEF AssignersOf
  <1>4. Assigners(assigner')
    BY <1>1 DEF IInv, Assigners
  <1>5. Counted(refs', raw', block', assigner')
    BY <1>1, <1>3 DEF IInv, Counted
  <1> QED BY <1>1, <1>4, <1>5 DEF IInv, Ids

LEMMA WriteOutStep ==
  ASSUME IInv, NEW s \in Slot, NEW o \in Object, WriteOut(s, o)
  PROVE  IInv'
  <1>1. /\ assigner[s] = {None} /\ assigner' = [assigner EXCEPT ![s] = {o}]
        /\ refs' = [refs EXCEPT ![o] = @ + 1]
        /\ UNCHANGED <<raw, floating, block, slot, conn, handlers, ids, lastId>>
    BY DEF WriteOut
  <1>2. \A q \in Slot : assigner'[q] = IF q = s THEN {o} ELSE assigner[q]
    BY <1>1 DEF IInv, Assigners
  <1>3. ASSUME NEW q \in Object
        PROVE  refs'[q] = Cardinality({q} \cap raw) + Cardinality(BlocksOf(block, q))
                            + Cardinality(AssignersOf(assigner', q))
    <2>1. /\ AssignersOf(assigner', q) = IF q = o THEN AssignersOf(assigner, q) \cup {s}
                                         ELSE AssignersOf(assigner, q)
          /\ s \notin AssignersOf(assigner, q)
      BY <1>1, <1>2, ConnectionAssumption DEF AssignersOf
    <2>2. /\ Cardinality({q} \cap raw) = IF q \in raw THEN 1 ELSE 0
          /\ Cardinality(BlocksOf(block, q)) \in Nat /\ Cardinality(AssignersOf(assigner, q)) \in Nat
          /\ IsFiniteSet(AssignersOf(assigner, q))
      BY Finite
    <2>3. Cardinality(AssignersOf(assigner, q) \cup {s}) = Cardinality(AssignersOf(assigner, q)) + 1
      BY <2>1, <2>2, FS_AddElement
    <2>4. refs[q] = Cardinality({q} \cap raw) + Cardinality(BlocksOf(block, q))
                      + Cardinality(AssignersOf(assigner, q))
      BY DEF IInv, Counted
    <2>5. refs'[q] = IF q = o THEN refs[q] + 1 ELSE refs[q]
      BY <1>1 DEF IInv
    <2> QED BY <2>1, <2>2, <2>3, <2>4, <2>5
  <1>4. Counted(refs', raw', block', assigner')
    BY <1>1, <1>3 DEF Counted
  <1>5. Assigners(assigner') /\ refs' \in [Object -> Nat]
    BY <1>1 DEF IInv, Assigners
  <1> QED BY <1>1, <1>4, <1>5 DEF IInv, Ids

LEMMA CloseAssignerStep ==
  ASSUME IInv, NEW s \in Slot, CloseAssigner(s)
  PROVE  IInv'
  <1>1. assigner' = [assigner EXCEPT ![s] = {}] /\ UNCHANGED <<raw, floating, lastId>>
    BY DEF CloseAssigner
  <1>2. /\ Assigners(assigner')
        /\ \A q \in Slot : assigner'[q] = IF q = s THEN {} ELSE assigner[q]
    BY <1>1 DEF IInv, Assigners
  <1>3. CASE assigner[s] = {None} /\ SetSlot(s, None)
    <2>1. ASSUME NEW o \in Object PROVE AssignersOf(assigner', o) = AssignersOf(assigner, o)
      BY <1>2, <1>3, ConnectionAssumption DEF AssignersOf
    <2> QED BY <1>1, <1>2, <1>3, <2>1, SetSlotKeeps
  <1>4. ASSUME NEW b \in Free, NEW o \in assigner[s] \ {None},
               Settle(refs, [block EXCEPT ![b] = o], [slot EXCEPT ![s] = b], conn, handlers, ids)
        PROVE  IInv'
    <2>1. assigner[s] = {o} /\ o \in Object
      BY <1>4 DEF IInv, Assigners
    <2>2. ASSUME NEW q \in Object
          PROVE  Cardinality({q} \cap raw') + Cardinality(AssignersOf(assigner', q))
                   = Cardinality({q} \cap raw) + Cardinality(AssignersOf(assigner, q))
                       - (IF q = o THEN 1 ELSE 0)
      <3>1. /\ AssignersOf(assigner', q) = IF q = o THEN AssignersOf(assigner, q) \ {s}
                                           ELSE AssignersOf(assigner, q)
            /\ q = o => s \in AssignersOf(assigner, q)
        BY <1>2, <2>1 DEF AssignersOf
      <3>2. /\ Cardinality({q} \cap raw) = IF q \in raw THEN 1 ELSE 0
            /\ Cardinality(AssignersOf(assigner, q)) \in Nat
            /\ IsFiniteSet(AssignersOf(assigner, q))
        BY Finite
      <3>3. q = o => Cardinality(AssignersOf(assigner, q) \ {s})
                       = Cardinality(AssignersOf(assigner, q)) - 1
        BY <3>1, <3>2, FS_RemoveElement
      <3> QED BY <1>1, <3>1, <3>2, <3>3
    <2>3. raw' \subseteq Object /\ floating' \subseteq raw' /\ UNCHANGED lastId
      BY <1>1 DEF IInv
    <2> QED BY <1>2, <1>4, <2>1, <2>2, <2>3, TakeOver
  <1> QED BY <1>3, <1>4 DEF CloseAssigner

-----------------------------------------------------------------------------
(* Handlers and connections.                                               *)

LEMMA AttachStep ==
  ASSUME IInv, NEW o \in Object \cup {MainContext}, Attach(o)
  PROVE  IInv'
  <1>1. /\ lastId < MaxId /\ lastId' = lastId + 1 /\ ids' = ids \cup {lastId'}
        /\ handlers' = [i \in DOMAIN handlers \cup {lastId'} |->
                          IF i = lastId' THEN o ELSE handlers[i]]
        /\ UNCHANGED <<refs, raw, floating, block, slot, assigner, conn>>
    BY DEF Attach
  <1>2. lastId' \in Id /\ lastId' \notin DOMAIN handlers /\ lastId' # 0
    BY <1>1, ConnectionAssumption DEF IInv, Ids, Id
  <1>3. Ids'
    BY <1>1, <1>2, ConnectionAssumption DEF IInv, Ids, Id, Connected
  <1>4. \A c \in Connection : conn[c].handle # lastId'
    BY <1>2 DEF IInv, Connected
  <1>5. Connected(block, conn, handlers', ids')
    BY <1>1, <1>2, <1>4 DEF IInv, Connected
  <1> QED BY <1>1, <1>3, <1>5 DEF IInv

LEMMA SourceEndsStep ==
  ASSUME IInv, NEW i \in Id, SourceEnds(i)
  PROVE  IInv'
  <1>1. /\ i \in DOMAIN handlers /\ handlers[i] = MainContext
        /\ handlers' = [handlers EXCEPT ![i] = Over]
        /\ UNCHANGED <<refs, raw, floating, block, slot, assigner, conn, ids, lastId>>
    BY DEF SourceEnds
  <1>2. /\ DOMAIN handlers' = DOMAIN handlers
        /\ \A j \in DOMAIN handlers : handlers'[j] = IF j = i THEN Over ELSE handlers[j]
    BY <1>1
  <1>3. ASSUME NEW c \in Connection, conn[c].handle = i
        PROVE  conn[c].obj = None
    <2>1. i # 0 /\ MainContext \in Targets(block, conn[c])
      BY <1>1, <1>3 DEF IInv, Connected, Id
    <2>2. conn[c].obj # None => MainContext \in Object
      BY <2>1 DEF IInv, Alive, Targets
    <2> QED BY <2>2, ConnectionAssumption
  <1>4. Connected(block, conn, handlers', ids)
    <2>1. ASSUME NEW c \in Connection, conn[c].handle # 0
          PROVE  handlers'[conn[c].handle] \in Targets(block, conn[c])
      BY <1>2, <1>3, <2>1 DEF IInv, Connected, Targets
    <2> QED BY <1>2, <2>1 DEF IInv, Connected
  <1> QED BY <1>1, <1>2, <1>4 DEF IInv, Ids

LEMMA DisconnectStep ==
  ASSUME IInv, NEW i \in Id, Disconnect(i)
  PROVE  IInv'
  <1>1. /\ i \in ids /\ ids' = ids \ {i}
        /\ DOMAIN handlers' = DOMAIN handlers \ {i}
        /\ \A j \in DOMAIN handlers \ {i} : handlers'[j] = handlers[j]
        /\ UNCHANGED <<refs, raw, floating, block, slot, assigner, conn, lastId>>
    BY DEF Disconnect, Restrict
  <1>2. Connected(block, conn, handlers', ids')
    BY <1>1 DEF IInv, Connected
  <1> QED BY <1>1, <1>2 DEF IInv, Ids

\* The deleter of a connection takes exactly its own handler away.
LEMMA OwnHandlerGoes ==
  ASSUME IInv, NEW c \in Connection
  PROVE  /\ DOMAIN Unsubscribed(conn[c]) = DOMAIN handlers \ {conn[c].handle}
         /\ \A i \in DOMAIN handlers \ {conn[c].handle} : Unsubscribed(conn[c])[i] = handlers[i]
  <1> DEFINE gone == IF ~conn[c].initialized THEN {}
                     ELSE IF IsSignal(conn[c]) THEN SignalGone(conn[c]) ELSE SourceGone(conn[c])
  <1>1. DOMAIN handlers \ gone = DOMAIN handlers \ {conn[c].handle}
    <2>1. CASE conn[c].handle = 0
      <3>1. 0 \notin DOMAIN handlers
        BY DEF IInv, Connected, Id
      <3>2. gone = {}
        BY <2>1, <3>1 DEF SignalGone, SourceGone
      <3> QED BY <2>1, <3>1, <3>2
    <2>2. CASE conn[c].handle # 0
      <3>1. /\ conn[c].initialized /\ conn[c].handle \in DOMAIN handlers
            /\ handlers[conn[c].handle] \in Targets(block, conn[c])
        BY <2>2 DEF IInv, Connected, Conns
      <3>2. gone = {conn[c].handle}
        BY <3>1 DEF Targets, IsSignal, SignalGone, SourceGone, ObjectOf
      <3> QED BY <3>2
    <2> QED BY <2>1, <2>2
  <1>2. Unsubscribed(conn[c]) = Restrict(handlers, DOMAIN handlers \ gone)
    BY DEF Unsubscribed
  <1> QED BY <1>1, <1>2 DEF Restrict

LEMMA SetConnKeeps ==
  ASSUME IInv, NEW conns \in Conns, NEW connected, NEW given,
         SetConn(conns, connected, given),
         DOMAIN connected \subseteq DOMAIN handlers,
         Alive(block, slot, conns), Connected(block, conns, connected, given)
  PROVE  IInv'
  <1>1. PICK counts, blocks, slots : counts = refs /\ blocks = block /\ slots = slot
    OBVIOUS
  <1>2. /\ Settle(counts, blocks, slots, conns, connected, given)
        /\ UNCHANGED <<raw, floating, assigner, lastId>>
    BY <1>1 DEF SetConn, outside
  <1>3. /\ counts \in [Object -> Int] /\ blocks \in Blocks /\ slots \in Slots
        /\ raw' \subseteq Object /\ floating' \subseteq raw' /\ Assigners(assigner')
        /\ Counted(counts, raw', blocks, assigner')
    BY <1>1, <1>2 DEF IInv
  <1>4. lastId' \in 0 .. MaxId /\ \A i \in DOMAIN connected : i <= lastId'
    BY <1>2 DEF IInv, Ids
  <1> QED BY <1>1, <1>2, <1>3, <1>4, SettleKeeps

\* One connection changes, after its handler has been disconnected: it takes a
\* handler of the program's, with the object that this is connected to, or none.
LEMMA TakeHandler ==
  ASSUME IInv, NEW c \in Connection, NEW i \in Id \cup {0},
         NEW x \in [initialized : BOOLEAN, handle : Id \cup {0}, obj : Block \cup {None}],
         x.handle = i, ~x.initialized => i = 0, x.obj # None => block[x.obj] \in Object,
         i # 0 => i \in ids \cap DOMAIN handlers /\ handlers[i] \in Targets(block, x),
         SetConn([conn EXCEPT ![c] = x], Unsubscribed(conn[c]), ids \ {i})
  PROVE  IInv'
  <1>1. PICK conns, connected, given :
          /\ conns = [conn EXCEPT ![c] = x] /\ connected = Unsubscribed(conn[c])
          /\ given = ids \ {i}
    OBVIOUS
  <1>2. /\ conns \in Conns
        /\ \A d \in Connection : conns[d] = IF d = c THEN x ELSE conn[d]
    BY <1>1 DEF IInv, Conns
  <1>3. Alive(block, slot, conns)
    BY <1>2 DEF IInv, Alive
  <1>4. /\ DOMAIN connected = DOMAIN handlers \ {conn[c].handle}
        /\ \A j \in DOMAIN connected : connected[j] = handlers[j]
    BY <1>1, OwnHandlerGoes
  <1>5. Connected(block, conns, connected, given)
    <2>1. Connected(block, conn, handlers, ids)
      BY DEF IInv
    <2>2. conn[c].handle \notin ids
      <3>1. 0 \notin ids
        BY <2>1 DEF Connected, Id
      <3> QED BY <2>1, <3>1 DEF Connected
    <2>3. given \subseteq DOMAIN connected
      BY <1>1, <1>4, <2>1, <2>2 DEF Connected
    <2>4. ASSUME NEW d \in Connection, conns[d].handle # 0
          PROVE  /\ conns[d].handle \in DOMAIN connected \ given
                 /\ connected[conns[d].handle] \in Targets(block, conns[d])
      <3>1. CASE d = c
        BY <1>1, <1>2, <1>4, <2>2, <2>4, <3>1
      <3>2. CASE d # c
        <4>1. /\ conn[d].handle \in DOMAIN handlers \ ids /\ conn[d].handle # conn[c].handle
              /\ handlers[conn[d].handle] \in Targets(block, conn[d])
          BY <1>2, <2>1, <2>4, <3>2 DEF Connected
        <4> QED BY <1>1, <1>2, <1>4, <3>2, <4>1
      <3> QED BY <3>1, <3>2
    <2>5. ASSUME NEW d \in Connection, NEW e \in Connection,
                 conns[d].handle # 0, conns[d].handle = conns[e].handle
          PROVE  d = e
      BY <1>2, <2>1, <2>5 DEF Connected
    <2>6. ASSUME NEW j \in DOMAIN connected \ given
          PROVE  \E d \in Connection : conns[d].handle = j
      <3>1. CASE j = i
        BY <1>2, <3>1
      <3>2. CASE j # i
        <4>1. PICK d \in Connection : conn[d].handle = j
          BY <1>1, <1>4, <2>1, <3>2 DEF Connected
        <4>2. d # c
          BY <1>4, <4>1
        <4> QED BY <1>2, <4>1, <4>2
      <3> QED BY <3>1, <3>2
    <2>7. ASSUME NEW d \in Connection, ~conns[d].initialized PROVE conns[d].handle = 0
      BY <1>2, <2>1, <2>7 DEF Connected
    <2>8. /\ DOMAIN connected \subseteq Id
          /\ \A j \in DOMAIN connected : connected[j] \in Object \cup {MainContext, Over}
      BY <1>4, <2>1 DEF Connected
    <2> QED BY <2>3, <2>4, <2>5, <2>6, <2>7, <2>8 DEF Connected
  <1>6. SetConn(conns, connected, given)
    BY <1>1
  <1> QED BY <1>2, <1>3, <1>4, <1>5, <1>6, SetConnKeeps

LEMMA ManageStep ==
  ASSUME IInv, NEW c \in Connection, NEW s \in Slot, NEW i \in Id \cup {0}, Manage(c, s, i)
  PROVE  IInv'
  <1>1. PICK x : x = Managing(s, i)
    OBVIOUS
  <1>2. /\ slot[s] \in Block /\ slot[s] # None /\ block[slot[s]] \in Object
    BY DEF Manage, Manageable, IInv, Slots, Alive
  <1>3. /\ x \in [initialized : BOOLEAN, handle : Id \cup {0}, obj : Block \cup {None}]
        /\ x.initialized /\ x.handle = i /\ x.obj = slot[s]
    BY <1>1, <1>2 DEF Managing
  <1>4. i # 0 => i \in ids \cap DOMAIN handlers /\ handlers[i] \in Targets(block, x)
    BY <1>2, <1>3 DEF Manage, Manageable, Targets, ObjectOf
  <1>5. SetConn([conn EXCEPT ![c] = x], Unsubscribed(conn[c]), ids \ {i})
    BY <1>1 DEF Manage
  <1> QED BY <1>2, <1>3, <1>4, <1>5, TakeHandler

LEMMA ManageSourceStep ==
  ASSUME IInv, NEW c \in Connection, NEW i \in Id \cup {0}, ManageSource(c, i)
  PROVE  IInv'
  <1>1. PICK x : x = [Unconnected EXCEPT !.initialized = TRUE, !.handle = i]
    OBVIOUS
  <1>2. /\ x \in [initialized : BOOLEAN, handle : Id \cup {0}, obj : Block \cup {None}]
        /\ x.initialized /\ x.handle = i /\ x.obj = None
    BY <1>1 DEF Unconnected
  <1>3. i # 0 => i \in ids \cap DOMAIN handlers /\ handlers[i] \in Targets(block, x)
    BY <1>2 DEF ManageSource, Targets
  <1>4. SetConn([conn EXCEPT ![c] = x], Unsubscribed(conn[c]), ids \ {i})
    BY <1>1 DEF ManageSource
  <1> QED BY <1>2, <1>3, <1>4, TakeHandler

\* The end of a connection's handler
LEMMA EndStep ==
  ASSUME IInv, NEW c \in Connection, Dealloc(c) \/ Destroy(c) \/ Move(c, c)
  PROVE  IInv'
  <1>1. PICK x : x \in {Emptied(conn[c]), Unconnected}
                 /\ SetConn([conn EXCEPT ![c] = x], Unsubscribed(conn[c]), ids)
    BY DEF Dealloc, Destroy, Move
  <1>2. /\ x \in [initialized : BOOLEAN, handle : Id \cup {0}, obj : Block \cup {None}]
        /\ x.handle = 0 /\ (x.obj # None => block[x.obj] \in Object)
    <2>1. conn[c] \in [initialized : BOOLEAN, handle : Id \cup {0}, obj : Block \cup {None}]
      BY DEF IInv, Conns
    <2>2. CASE x = Emptied(conn[c])
      <3>1. conn[c].obj # None => block[conn[c].obj] \in Object
        BY DEF IInv, Alive
      <3> QED BY <2>1, <2>2, <3>1 DEF Emptied
    <2>3. CASE x = Unconnected
      BY <2>3 DEF Unconnected
    <2> QED BY <1>1, <2>2, <2>3
  <1>3. ids \ {0} = ids
    BY DEF IInv, Connected, Id
  <1>4. PICK i : i = 0
    OBVIOUS
  <1> QED BY <1>1, <1>2, <1>3, <1>4, TakeHandler

LEMMA ReleaseStep ==
  ASSUME IInv, NEW c \in Connection, Release(c)
  PROVE  IInv'
  <1>1. PICK conns, connected, given :
          /\ conns = [conn EXCEPT ![c] = Emptied(conn[c])] /\ connected = handlers
          /\ given = ids \cup ({conn[c].handle} \ {0})
    OBVIOUS
  <1>2. /\ conns \in Conns
        /\ \A d \in Connection \ {c} : conns[d] = conn[d]
        /\ conns[c].handle = 0 /\ conns[c].obj = conn[c].obj
    BY <1>1 DEF IInv, Conns, Emptied
  <1>3. Alive(block, slot, conns)
    BY <1>2 DEF IInv, Alive
  <1>4. Connected(block, conns, connected, given)
    BY <1>1, <1>2 DEF IInv, Connected
  <1>5. SetConn(conns, connected, given)
    BY <1>1 DEF Release
  <1> QED BY <1>1, <1>2, <1>3, <1>4, <1>5, SetConnKeeps

LEMMA SwapStep ==
  ASSUME IInv, NEW c \in Connection, NEW d \in Connection, Swap(c, d)
  PROVE  IInv'
  <1>1. PICK conns, connected, given :
          /\ conns = [conn EXCEPT ![c] = conn[d], ![d] = conn[c]]
          /\ connected = handlers /\ given = ids
    OBVIOUS
  <1>2. /\ conns \in Conns /\ c # d /\ conns[c] = conn[d] /\ conns[d] = conn[c]
        /\ \A e \in Connection \ {c, d} : conns[e] = conn[e]
    BY <1>1 DEF IInv, Conns, Swap
  <1>3. Alive(block, slot, conns)
    BY <1>2 DEF IInv, Alive
  <1>4. Connected(block, conns, connected, given)
    <2>1. PICK other \in [Connection -> Connection] :
            /\ \A e \in Connection : conns[e] = conn[other[e]] /\ other[other[e]] = e
      <3> DEFINE w == [e \in Connection |-> IF e = c THEN d ELSE IF e = d THEN c ELSE e]
      <3>1. w \in [Connection -> Connection]
        OBVIOUS
      <3>2. \A e \in Connection : conns[e] = conn[w[e]] /\ w[w[e]] = e
        BY <1>2
      <3> HIDE DEF w
      <3> QED BY <3>1, <3>2
    <2>2. Connected(block, conn, handlers, ids)
      BY DEF IInv
    <2>3. ASSUME NEW e \in Connection, ~conns[e].initialized PROVE conns[e].handle = 0
      BY <2>1, <2>2, <2>3 DEF Connected
    <2>4. ASSUME NEW e \in Connection, conns[e].handle # 0
          PROVE  /\ conns[e].handle \in DOMAIN connected \ given
                 /\ connected[conns[e].handle] \in Targets(block, conns[e])
      <3>1. other[e] \in Connection /\ conns[e] = conn[other[e]]
        BY <2>1
      <3> QED BY <1>1, <2>2, <2>4, <3>1 DEF Connected
    <2>5. ASSUME NEW e \in Connection, NEW f \in Connection,
                 conns[e].handle # 0, conns[e].handle = conns[f].handle
          PROVE  e = f
      BY <2>1, <2>2, <2>5 DEF Connected
    <2>6. ASSUME NEW j \in DOMAIN connected \ given
          PROVE  \E e \in Connection : conns[e].handle = j
      <3>1. PICK e \in Connection : conn[e].handle = j
        BY <1>1, <2>2 DEF Connected
      <3>2. other[e] \in Connection /\ conns[other[e]] = conn[e]
        BY <2>1
      <3> QED BY <3>1, <3>2
    <2>7. /\ given \subseteq DOMAIN connected /\ DOMAIN connected \subseteq Id
          /\ \A j \in DOMAIN connected : connected[j] \in Object \cup {MainContext, Over}
      BY <1>1, <2>2 DEF Connected
    <2> QED BY <2>3, <2>4, <2>5, <2>6, <2>7 DEF Connected
  <1>5. SetConn(conns, connected, given)
    BY <1>1 DEF Swap
  <1> QED BY <1>1, <1>2, <1>3, <1>4, <1>5, SetConnKeeps

LEMMA MoveStep ==
  ASSUME IInv, NEW c \in Connection, NEW d \in Connection, c # d, Move(c, d)
  PROVE  IInv'
  <1>1. PICK conns, connected, given :
          /\ conns = [conn EXCEPT ![c] = conn[d], ![d] = Emptied(conn[d])]
          /\ connected = Unsubscribed(conn[c]) /\ given = ids
    OBVIOUS
  <1>2. /\ conns \in Conns /\ conns[c] = conn[d] /\ conns[d] = Emptied(conn[d])
        /\ \A e \in Connection \ {c, d} : conns[e] = conn[e]
        /\ conns[d].handle = 0 /\ conns[d].obj = conn[d].obj
    BY <1>1 DEF IInv, Conns, Emptied
  <1>3. Alive(block, slot, conns)
    BY <1>2 DEF IInv, Alive
  <1>4. /\ DOMAIN connected = DOMAIN handlers \ {conn[c].handle}
        /\ \A j \in DOMAIN connected : connected[j] = handlers[j]
    BY <1>1, OwnHandlerGoes
  <1>5. Connected(block, conns, connected, given)
    <2>1. Connected(block, conn, handlers, ids) /\ 0 \notin DOMAIN handlers
      BY DEF IInv, Connected, Id
    <2>2. given \subseteq DOMAIN connected
      BY <1>1, <1>4, <2>1 DEF Connected
    <2>3. ASSUME NEW e \in Connection, conns[e].handle # 0
          PROVE  /\ conns[e].handle \in DOMAIN connected \ given
                 /\ connected[conns[e].handle] \in Targets(block, conns[e])
      <3>1. PICK f \in Connection \ {c} : conns[e] = conn[f]
        BY <1>2, <2>3
      <3>2. conn[f].handle # conn[c].handle
        BY <2>1, <2>3, <3>1 DEF Connected
      <3>3. conn[f].handle \in DOMAIN handlers \ ids /\ handlers[conn[f].handle] \in Targets(block, conn[f])
        BY <2>1, <2>3, <3>1 DEF Connected
      <3> QED BY <1>1, <1>4, <3>1, <3>2, <3>3
    <2>4. ASSUME NEW j \in DOMAIN connected \ given
          PROVE  \E e \in Connection : conns[e].handle = j
      <3>1. PICK e \in Connection : conn[e].handle = j
        BY <1>1, <1>4, <2>1 DEF Connected
      <3>2. e # c
        BY <1>4, <3>1
      <3> QED BY <1>2, <3>1, <3>2
    <2>5. ASSUME NEW e \in Connection, NEW f \in Connection,
                 conns[e].handle # 0, conns[e].handle = conns[f].handle
          PROVE  e = f
      BY <1>2, <2>1, <2>5 DEF Connected
    <2>6. ASSUME NEW e \in Connection, ~conns[e].initialized PROVE conns[e].handle = 0
      BY <1>2, <2>1, <2>6 DEF Connected
    <2>7. /\ DOMAIN connected \subseteq Id
          /\ \A j \in DOMAIN connected : connected[j] \in Object \cup {MainContext, Over}
      BY <1>4, <2>1 DEF Connected
    <2> QED BY <2>2, <2>3, <2>4, <2>5, <2>6, <2>7 DEF Connected
  <1>6. SetConn(conns, connected, given)
    BY <1>1 DEF Move
  <1> QED BY <1>2, <1>3, <1>4, <1>5, <1>6, SetConnKeeps

-----------------------------------------------------------------------------
LEMMA InitIInv ==
  ASSUME Init
  PROVE  IInv
  <1>1. ASSUME NEW o \in Object
        PROVE  refs[o] = Cardinality({o} \cap raw) + Cardinality(BlocksOf(block, o))
                           + Cardinality(AssignersOf(assigner, o))
    <2>1. {o} \cap raw = {} /\ BlocksOf(block, o) = {} /\ AssignersOf(assigner, o) = {}
      BY ConnectionAssumption DEF Init, BlocksOf, AssignersOf
    <2>2. refs[o] = 0 /\ Cardinality({}) = 0
      BY FS_EmptySet DEF Init
    <2> QED BY <2>1, <2>2
  <1>2. Counted(refs, raw, block, assigner)
    BY <1>1 DEF Counted
  <1>3. refs \in [Object -> Nat] /\ raw \subseteq Object /\ floating \subseteq raw
    BY DEF Init
  <1>4. block \in Blocks /\ slot \in Slots /\ Assigners(assigner) /\ Alive(block, slot, conn)
    BY DEF Init, Blocks, Slots, Assigners, Alive, Unconnected
  <1>5. conn \in Conns
    BY DEF Init, Conns, Unconnected
  <1>6. Connected(block, conn, handlers, ids) /\ Ids
    BY ConnectionAssumption DEF Init, Connected, Unconnected, Ids
  <1> QED BY <1>2, <1>3, <1>4, <1>5, <1>6 DEF IInv

LEMMA NextIInv ==
  ASSUME IInv, [Next]_vars
  PROVE  IInv'
  <1>1. ASSUME NEW o \in Object, New(o) \/ Sink(o) \/ Ref(o) \/ Unref(o) \/ Connect(o)
        PROVE  IInv'
    BY <1>1, NewStep, SinkStep, RefStep, UnrefStep, AttachStep DEF Connect
  <1>2. ASSUME NEW s \in Slot,
               \/ Reset(s) \/ Assign(s) \/ MoveAssigner(s) \/ CloseAssigner(s)
               \/ \E q \in Slot : Copy(s, q)
               \/ \E o \in Object : WriteOut(s, o) \/ \E b \in Block : Share(s, o, b)
        PROVE  IInv'
    BY <1>2, ResetStep, AssignStep, CloseAssignerStep, CopyStep, WriteOutStep, ShareStep
  <1>3. CASE AddSource
    BY <1>3, AttachStep DEF AddSource
  <1>4. ASSUME NEW i \in Id, Disconnect(i) \/ SourceEnds(i)
        PROVE  IInv'
    BY <1>4, DisconnectStep, SourceEndsStep
  <1>5. ASSUME NEW c \in Connection, Dealloc(c) \/ Release(c) \/ Destroy(c)
        PROVE  IInv'
    BY <1>5, EndStep, ReleaseStep
  <1>6. ASSUME NEW c \in Connection, NEW i \in Id \cup {0},
               ManageSource(c, i) \/ \E s \in Slot : Manage(c, s, i)
        PROVE  IInv'
    BY <1>6, ManageSourceStep, ManageStep
  <1>7. ASSUME NEW c \in Connection, NEW d \in Connection, Move(c, d) \/ Swap(c, d)
        PROVE  IInv'
    BY <1>7, EndStep, MoveStep, SwapStep
  <1>8. CASE UNCHANGED vars
    BY <1>8 DEF vars, IInv, Ids
  <1> QED BY <1>1, <1>2, <1>3, <1>4, <1>5, <1>6, <1>7, <1>8 DEF Next

LEMMA Invariance == Spec => []IInv
  <1>1. Init => IInv
    BY InitIInv
  <1>2. IInv /\ [Next]_vars => IInv'
    BY NextIInv
  <1> QED BY <1>1, <1>2, PTL DEF Spec

-----------------------------------------------------------------------------
\* The variables have their types, counts and ids their ranges: no count of
\* GObject falls below zero, whichever of the helpers give references back.
THEOREM TypeCorrect == Spec => []TypeOK
  <1>1. IInv => TypeOK
    BY DEF IInv, TypeOK, Blocks, Slots, Conns, Assigners, Connected, Ids
  <1> QED BY <1>1, Invariance, PTL

\* GObjectDeleter and the assigners give back every reference that they have
\* been given, once: what GObject counts is what is owned.
THEOREM ReferencesAreOwnedHolds == Spec => []ReferencesAreOwned
  <1>1. IInv => ReferencesAreOwned
    BY DEF IInv, ReferencesAreOwned, Counted, BlocksOf, AssignersOf
  <1> QED BY <1>1, Invariance, PTL

\* What the deleter of a connection is going to disconnect is there, and
\* belongs to the object or to the context that the deleter asks.
THEOREM HandlerIsConnectedHolds == Spec => []HandlerIsConnected
  <1>1. ASSUME IInv, NEW c \in Connection, conn[c].handle # 0
        PROVE  /\ conn[c].handle \in DOMAIN handlers
               /\ handlers[conn[c].handle] \in
                    IF IsSignal(conn[c]) THEN {ObjectOf(conn[c].obj)} ELSE {MainContext, Over}
    BY <1>1 DEF IInv, Connected, Targets, IsSignal, ObjectOf
  <1>2. IInv => HandlerIsConnected
    BY <1>1 DEF HandlerIsConnected
  <1> QED BY <1>2, Invariance, PTL

\* A handler or a source has one owner, the program or one connection,
\* through any moves, swaps, assignments and releases.
THEOREM OneDisconnectsHolds == Spec => []OneDisconnects
  <1>1. ASSUME IInv, NEW i \in DOMAIN handlers
        PROVE  Cardinality({c \in Connection : conn[c].handle = i}) = IF i \in ids THEN 0 ELSE 1
    <2>1. Connected(block, conn, handlers, ids) /\ i # 0
      BY <1>1 DEF IInv, Connected, Id
    <2>2. CASE i \in ids
      <3>1. {c \in Connection : conn[c].handle = i} = {}
        BY <2>1, <2>2 DEF Connected
      <3> QED BY <2>2, <3>1, FS_EmptySet
    <2>3. CASE i \notin ids
      <3>1. PICK c \in Connection : conn[c].handle = i
        BY <2>1, <2>3 DEF Connected
      <3>2. {d \in Connection : conn[d].handle = i} = {c}
        BY <2>1, <3>1 DEF Connected
      <3> QED BY <2>3, <3>2, FS_Singleton
    <2> QED BY <2>2, <2>3
  <1>2. IInv => OneDisconnects
    BY <1>1 DEF OneDisconnects
  <1> QED BY <1>2, Invariance, PTL
=============================================================================
