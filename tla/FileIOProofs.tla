---------------------------- MODULE FileIOProofs ----------------------------
(***************************************************************************)
(* The safety of read_file() for any threads, files, descriptors and sizes *)
(* of content: no descriptor is leaked or closed twice, and what returns   *)
(* is one version of the file.                                             *)
(***************************************************************************)
EXTENDS FileIO, SequenceTheorems, TLAPS

\* s is the beginning of c.
Begins(s, c) == Len(s) <= Len(c) /\ \A k \in 1..Len(s) : s[k] = c[k]

(* What a call knows after fstat(): the size is that of the version, which *)
(* is still the beginning of the content unless the file has been written  *)
(* over, and buf is the beginning of that version.                         *)
ReadsVersion(t) ==
  /\ t \notin torn => /\ size[t] = Len(version[t])
                      /\ Begins(version[t], data[Opened(t)])
                      /\ Begins(buf[t], version[t])
  /\ Len(buf[t]) <= size[t]

Reading ==
  \A t \in Thread :
    /\ fd[t] # None => Opened(t) \in Inode
    /\ pc[t] \in {"idle", "open", "fstat"} => buf[t] = <<>>
    /\ pc[t] = "read" => ReadsVersion(t)
    /\ pc[t] = "close" /\ outcome[t] = "ok" => ReadsVersion(t) /\ Len(buf[t]) = size[t]
    /\ pc[t] # "idle" => name[t] \in Name

IInv == TypeOK /\ DescriptorsAreHeld /\ Reading

-----------------------------------------------------------------------------
\* The descriptor of a call in progress is its own.
LEMMA OwnDescriptor ==
  ASSUME IInv, NEW t \in Thread, fd[t] # None
  PROVE  /\ fd[t] \in Fd /\ Opened(t) \in Inode /\ table[fd[t]] # None
         /\ \A u \in Thread \ {t} : fd[u] # fd[t]
         /\ fd[t] \notin others
  BY ConstantsAssumption DEF IInv, TypeOK, DescriptorsAreHeld, Reading, Opened

\* A file that is open stays what it was when others are reclaimed.
LEMMA ReclaimKeeps ==
  ASSUME IInv, Reclaim, NEW t \in Thread, fd[t] # None, table'[fd[t]] = table[fd[t]]
  PROVE  kind'[Opened(t)] = kind[Opened(t)] /\ data'[Opened(t)] = data[Opened(t)]
  <1>0. PICK i : i = Opened(t)
    OBVIOUS
  <1>1. fd[t] \in Fd /\ i \in Inode /\ table'[fd[t]] = i
    BY <1>0, OwnDescriptor DEF Opened
  <1>2. ~Free(i)'
    BY <1>1 DEF Free
  <1>3. kind'[i] = kind[i] /\ data'[i] = data[i]
    BY <1>1, <1>2 DEF Reclaim
  <1> QED BY <1>0, <1>3

LEMMA ReclaimTypes ==
  ASSUME TypeOK, Reclaim
  PROVE  kind' \in [Inode -> Kind] /\ data' \in [Inode -> Content]
  <1>1. <<>> \in Content
    BY EmptySeq DEF Content
  <1> QED BY <1>1 DEF TypeOK, Reclaim, Kind

\* Two contents of one length, one the beginning of the other, are equal.
LEMMA BeginsEqual ==
  ASSUME NEW s \in Content, NEW c \in Content, Len(s) = Len(c), Begins(s, c)
  PROVE  s = c
  BY SeqEqual DEF Content, Begins

LEMMA BeginsTransitive ==
  ASSUME NEW s \in Content, NEW c \in Content, NEW d \in Content, Begins(s, c), Begins(c, d)
  PROVE  Begins(s, d)
  <1>1. Len(s) \in Nat /\ Len(c) \in Nat /\ Len(d) \in Nat
    BY LenProperties DEF Content
  <1> QED BY <1>1 DEF Begins

-----------------------------------------------------------------------------
(* The steps of a call.                                                    *)

LEMMA CallStep ==
  ASSUME IInv, NEW t \in Thread, NEW n \in Name, Call(t, n)
  PROVE  IInv'
  <1> USE ConstantsAssumption DEF Call, files
  <1>1. TypeOK'
    BY DEF IInv, TypeOK
  <1>2. DescriptorsAreHeld'
    BY DEF IInv, DescriptorsAreHeld
  <1>3. Reading'
    BY DEF IInv, TypeOK, Reading, ReadsVersion, Begins, Opened
  <1> QED BY <1>1, <1>2, <1>3 DEF IInv

LEMMA OpenFailsStep ==
  ASSUME IInv, NEW t \in Thread, OpenFails(t)
  PROVE  IInv'
  <1> USE ConstantsAssumption DEF OpenFails, files
  <1>1. TypeOK'
    BY DEF IInv, TypeOK
  <1>2. DescriptorsAreHeld'
    BY DEF IInv, DescriptorsAreHeld
  <1>3. Reading'
    BY DEF IInv, TypeOK, Reading, ReadsVersion, Begins, Opened
  <1> QED BY <1>1, <1>2, <1>3 DEF IInv

\* open() takes a descriptor that nobody has.
LEMMA OpenStep ==
  ASSUME IInv, NEW t \in Thread, NEW f \in Fd, OpenAs(t, f)
  PROVE  IInv'
  <1> USE ConstantsAssumption DEF OpenAs, files
  <1>1. name[t] \in Name /\ dir[name[t]] \in Inode /\ fd[t] = None
    BY DEF IInv, TypeOK, Reading
  <1>2. \A u \in Thread : fd[u] # f
    BY DEF IInv, DescriptorsAreHeld
  <1>3. f \notin others
    BY DEF IInv, DescriptorsAreHeld
  <1>4. TypeOK'
    BY <1>1 DEF IInv, TypeOK
  <1>5. DescriptorsAreHeld'
    BY <1>1, <1>2, <1>3 DEF IInv, TypeOK, DescriptorsAreHeld
  <1>6. Reading'
    <2>1. fd' = [fd EXCEPT ![t] = f] /\ fd \in [Thread -> Fd \cup {None}]
          /\ table' = [table EXCEPT ![f] = dir[name[t]]] /\ pc' = [pc EXCEPT ![t] = "fstat"]
      BY DEF IInv, TypeOK
    <2>2. \A u \in Thread \ {t} : fd'[u] = fd[u] /\ (fd[u] # None => Opened(u)' = Opened(u))
      BY <1>2, <2>1 DEF IInv, TypeOK, Opened
    <2>3. ASSUME NEW u \in Thread \ {t}, ReadsVersion(u), fd[u] # None PROVE ReadsVersion(u)'
      BY <2>2, <2>3 DEF ReadsVersion, Begins
    <2>4. Opened(t)' \in Inode
      BY <1>1, <2>1 DEF IInv, TypeOK, Opened
    <2> QED BY <2>1, <2>2, <2>3, <2>4 DEF IInv, TypeOK, Reading
  <1> QED BY <1>4, <1>5, <1>6 DEF IInv

\* A step that changes the frame of t only, with the files as they are.
FrameOf(t) ==
  /\ UNCHANGED <<files, table, others, name, fd>>
  /\ \A u \in Thread \ {t} :
       /\ pc'[u] = pc[u] /\ size'[u] = size[u] /\ buf'[u] = buf[u]
       /\ outcome'[u] = outcome[u] /\ version'[u] = version[u]
       /\ u \in torn' <=> u \in torn

LEMMA FrameStep ==
  ASSUME IInv, NEW t \in Thread, fd[t] # None, FrameOf(t), TypeOK',
         pc'[t] \in {"read", "close"},
         pc'[t] = "read" => ReadsVersion(t)',
         pc'[t] = "close" /\ outcome'[t] = "ok" => ReadsVersion(t)' /\ Len(buf'[t]) = size'[t],
         pc[t] # "idle"
  PROVE  IInv'
  <1> USE ConstantsAssumption DEF files, FrameOf
  <1>1. DescriptorsAreHeld'
    BY DEF IInv, DescriptorsAreHeld
  <1>2. \A u \in Thread : Opened(u)' = Opened(u)
    BY DEF Opened
  <1>3. ASSUME NEW u \in Thread \ {t}, ReadsVersion(u) PROVE ReadsVersion(u)'
    BY <1>2, <1>3 DEF ReadsVersion, Begins
  <1>4. \A u \in Thread \ {t} : ReadsVersion(u) => ReadsVersion(u)'
    BY <1>3
  <1>5. Reading'
    BY <1>2, <1>4 DEF IInv, TypeOK, Reading
  <1> QED BY <1>1, <1>5 DEF IInv

LEMMA FstatStep ==
  ASSUME IInv, NEW t \in Thread, Fstat(t)
  PROVE  IInv'
  <1> USE ConstantsAssumption DEF Fstat, End, files
  <1>1. fd[t] # None /\ Opened(t) \in Inode /\ buf[t] = <<>>
    BY DEF IInv, TypeOK, Reading
  <1>2. data[Opened(t)] \in Content /\ Len(data[Opened(t)]) \in Nat
    BY <1>1, LenProperties DEF IInv, TypeOK, Content
  <1>3. TypeOK'
    <2>1. \A u \in Thread : pc'[u] \in {"idle", "open"} <=> pc[u] \in {"idle", "open"}
      BY DEF IInv, TypeOK
    <2>2. size' \in [Thread -> Nat] /\ version' \in [Thread -> Content] /\ torn' \subseteq Thread
      <3>1. \/ UNCHANGED <<size, version, torn>>
            \/ /\ size' = [size EXCEPT ![t] = Len(data[Opened(t)])]
               /\ version' = [version EXCEPT ![t] = data[Opened(t)]]
               /\ torn' = torn \ {t}
        OBVIOUS
      <3>2. size \in [Thread -> Nat] /\ version \in [Thread -> Content] /\ torn \subseteq Thread
        BY DEF IInv, TypeOK
      <3> HIDE DEF Fstat
      <3> QED BY <1>2, <3>1, <3>2
    <2>3. /\ pc' \in [Thread -> {"idle", "open", "fstat", "read", "close"}]
          /\ outcome' \in [Thread -> {"none", "ok", "throw"}]
      BY DEF IInv, TypeOK
    <2> QED BY <2>1, <2>2, <2>3 DEF IInv, TypeOK
  <1>4. CASE kind[Opened(t)] # "regular"
    <2>1. pc'[t] = "close" /\ outcome'[t] = "throw" /\ pc[t] = "fstat"
      BY <1>4 DEF IInv, TypeOK
    <2>2. FrameOf(t)
      BY <1>4 DEF IInv, TypeOK, FrameOf
    <2> QED BY <1>1, <1>3, <2>1, <2>2, FrameStep
  <1>5. CASE kind[Opened(t)] = "regular"
    <2>1. /\ size'[t] = Len(data[Opened(t)]) /\ version'[t] = data[Opened(t)] /\ t \notin torn'
          /\ buf'[t] = <<>> /\ data' = data /\ Opened(t)' = Opened(t)
      BY <1>1, <1>5 DEF IInv, TypeOK, Opened
    <2>2. Len(<<>>) = 0
      BY EmptySeq
    <2>3. ReadsVersion(t)'
      BY <1>2, <2>1, <2>2 DEF ReadsVersion, Begins
    <2>4. pc'[t] = "close" => Len(buf'[t]) = size'[t]
      BY <1>5, <2>1, <2>2 DEF IInv, TypeOK
    <2>5. pc'[t] \in {"read", "close"} /\ pc[t] = "fstat"
      BY <1>5 DEF IInv, TypeOK
    <2>6. FrameOf(t)
      BY <1>5 DEF IInv, TypeOK, FrameOf
    <2> QED BY <1>1, <1>3, <2>3, <2>4, <2>5, <2>6, FrameStep
  <1> QED BY <1>4, <1>5

LEMMA FailStep ==
  ASSUME IInv, NEW t \in Thread, FstatFails(t) \/ ReadFails(t)
  PROVE  IInv'
  <1> USE ConstantsAssumption DEF FstatFails, ReadFails, End, files
  <1>1. fd[t] # None
    BY DEF IInv, TypeOK
  <1>2. TypeOK'
    BY DEF IInv, TypeOK
  <1>3. pc'[t] = "close" /\ outcome'[t] = "throw" /\ pc[t] # "idle"
    BY DEF IInv, TypeOK
  <1>4. FrameOf(t)
    BY DEF IInv, TypeOK, FrameOf
  <1> QED BY <1>1, <1>2, <1>3, <1>4, FrameStep

LEMMA ReadBlockStep ==
  ASSUME IInv, NEW t \in Thread, ReadBlock(t)
  PROVE  IInv'
  <1> USE ConstantsAssumption DEF ReadBlock, files
  <1>0. PICK next : next = Len(buf[t]) + 1
    OBVIOUS
  <1>1. fd[t] # None /\ Opened(t) \in Inode /\ ReadsVersion(t) /\ pc[t] = "read"
    BY DEF IInv, TypeOK, Reading
  <1>2. /\ buf[t] \in Content /\ data[Opened(t)] \in Content /\ version[t] \in Content
        /\ Len(buf[t]) \in Nat /\ Len(data[Opened(t)]) \in Nat /\ Len(version[t]) \in Nat
        /\ size[t] \in Nat /\ next \in 1..Len(data[Opened(t)]) /\ next <= size[t]
    BY <1>0, <1>1, LenProperties DEF IInv, TypeOK, Content
  <1>3. data[Opened(t)][next] \in Block
    BY <1>2, ElementOfSeq DEF Content
  <1>4. /\ buf'[t] = Append(buf[t], data[Opened(t)][next])
        /\ \A u \in Thread \ {t} : buf'[u] = buf[u]
        /\ UNCHANGED <<pc, size, version, torn, data>> /\ Opened(t)' = Opened(t)
    BY <1>0 DEF IInv, TypeOK, Opened
  <1>5. /\ buf'[t] \in Content /\ Len(buf'[t]) = next
        /\ \A k \in 1..Len(buf[t]) : buf'[t][k] = buf[t][k]
        /\ buf'[t][next] = data[Opened(t)][next]
    BY <1>0, <1>2, <1>3, <1>4, AppendProperties DEF Content
  <1>6. TypeOK'
    BY <1>0, <1>2, <1>3, <1>5, AppendProperties DEF IInv, TypeOK, Content
  <1>7. ReadsVersion(t)'
    <2>1. Len(buf'[t]) <= size'[t]
      BY <1>2, <1>4, <1>5
    <2>2. ASSUME t \notin torn
          PROVE  Begins(buf'[t], version[t])
      <3>1. /\ size[t] = Len(version[t])
            /\ Begins(version[t], data[Opened(t)]) /\ Begins(buf[t], version[t])
        BY <1>1, <2>2 DEF ReadsVersion
      <3>2. next \in 1..Len(version[t])
        BY <1>2, <3>1
      <3>3. version[t][next] = data[Opened(t)][next]
        BY <3>1, <3>2 DEF Begins
      <3>4. ASSUME NEW k \in 1..next PROVE buf'[t][k] = version[t][k]
        BY <1>0, <1>2, <1>5, <3>1, <3>3 DEF Begins
      <3> QED BY <1>5, <3>2, <3>4 DEF Begins
    <2> QED BY <1>1, <1>4, <2>1, <2>2 DEF ReadsVersion
  <1>8. FrameOf(t)
    BY <1>4 DEF FrameOf
  <1> QED BY <1>1, <1>4, <1>6, <1>7, <1>8, FrameStep

LEMMA ReadEndsStep ==
  ASSUME IInv, NEW t \in Thread, ReadEnds(t)
  PROVE  IInv'
  <1> USE ConstantsAssumption DEF ReadEnds, End, files
  <1>1. fd[t] # None /\ ReadsVersion(t) /\ pc[t] = "read" /\ pc'[t] = "close"
    BY DEF IInv, TypeOK, Reading
  <1>2. TypeOK'
    BY DEF IInv, TypeOK
  <1>3. outcome'[t] = "ok" => Len(buf'[t]) = size'[t]
    BY DEF IInv, TypeOK
  <1>4. ReadsVersion(t)'
    BY <1>1 DEF ReadsVersion, Opened
  <1>5. FrameOf(t)
    BY DEF IInv, TypeOK, FrameOf
  <1> QED BY <1>1, <1>2, <1>3, <1>4, <1>5, FrameStep

\* close() takes away the one descriptor that was t's; a file that only t had
\* open may go with it.
LEMMA CloseStep ==
  ASSUME IInv, NEW t \in Thread, Close(t)
  PROVE  IInv'
  <1> USE ConstantsAssumption DEF Close
  <1>1. fd[t] # None /\ fd[t] \in Fd
    BY OwnDescriptor DEF IInv, TypeOK
  <1>2. \A u \in Thread \ {t} : fd'[u] = fd[u] /\ fd[u] # fd[t]
    BY <1>1, OwnDescriptor DEF IInv, TypeOK
  <1>3. \A u \in Thread \ {t} : table'[fd[u]] = table[fd[u]]
    BY <1>1, <1>2 DEF IInv, TypeOK
  <1>4. /\ fd'[t] = None /\ pc'[t] = "idle" /\ buf'[t] = <<>>
        /\ table' = [table EXCEPT ![fd[t]] = None] /\ UNCHANGED others
    BY DEF IInv, TypeOK
  <1>5. TypeOK'
    <2>1. kind' \in [Inode -> Kind] /\ data' \in [Inode -> Content]
      BY ReclaimTypes DEF IInv
    <2>2. <<>> \in Content
      BY EmptySeq DEF Content
    <2> QED BY <1>1, <2>1, <2>2 DEF IInv, TypeOK
  <1>6. DescriptorsAreHeld'
    <2>1. /\ \A f \in Fd : table[f] # None <=> f \in others \/ \E u \in Thread : fd[u] = f
          /\ \A u, v \in Thread : fd[u] # None /\ fd[u] = fd[v] => u = v
          /\ \A u \in Thread : fd[u] \notin others
      BY DEF IInv, DescriptorsAreHeld
    <2>2. \A f \in Fd : table'[f] = IF f = fd[t] THEN None ELSE table[f]
      BY <1>1, <1>4 DEF IInv, TypeOK
    <2>3. None \notin Fd /\ None \notin others
      BY DEF IInv, TypeOK
    <2>4. \A f \in Fd : table'[f] # None <=> f \in others \/ \E u \in Thread : fd'[u] = f
      BY <1>1, <1>2, <1>4, <2>1, <2>2, <2>3
    <2> HIDE DEF Close
    <2> QED BY <1>2, <1>4, <2>1, <2>3, <2>4 DEF DescriptorsAreHeld
  <1>7. ASSUME NEW u \in Thread \ {t}, fd[u] # None
        PROVE  Opened(u)' = Opened(u) /\ data'[Opened(u)] = data[Opened(u)]
    BY <1>2, <1>3, <1>7, ReclaimKeeps DEF Opened
  <1>8. \A u \in Thread \ {t} : fd[u] # None /\ ReadsVersion(u) => ReadsVersion(u)'
    BY <1>7 DEF IInv, TypeOK, ReadsVersion, Begins
  <1>9. Reading'
    BY <1>1, <1>2, <1>4, <1>7, <1>8 DEF IInv, TypeOK, Reading
  <1> QED BY <1>5, <1>6, <1>9 DEF IInv

-----------------------------------------------------------------------------
(* The steps of others.                                                    *)

\* Files may come, go and grow, as long as what is open keeps its beginning or
\* is marked as torn.
LEMMA FilesStep ==
  ASSUME IInv, TypeOK', UNCHANGED <<table, others, pc, name, fd, size, buf, outcome, version>>,
         torn \subseteq torn',
         \A t \in Thread : fd[t] # None =>
            t \in torn' \/ Begins(data[Opened(t)], data'[Opened(t)])
  PROVE  IInv'
  <1>1. DescriptorsAreHeld'
    BY DEF IInv, DescriptorsAreHeld
  <1>2. \A t \in Thread : Opened(t)' = Opened(t)
    BY DEF Opened
  <1>3. ASSUME NEW t \in Thread, fd[t] # None, ReadsVersion(t) PROVE ReadsVersion(t)'
    <2>1. CASE t \in torn'
      BY <1>3, <2>1 DEF ReadsVersion
    <2>2. CASE t \notin torn'
      <3>1. Begins(version[t], data[Opened(t)]) /\ Begins(data[Opened(t)], data'[Opened(t)])
        BY <1>3, <2>2 DEF ReadsVersion
      <3>2. /\ Opened(t) \in Inode /\ version[t] \in Content
            /\ data[Opened(t)] \in Content /\ data'[Opened(t)] \in Content
        BY <1>3 DEF IInv, TypeOK, Reading
      <3>3. Begins(version[t], data'[Opened(t)])
        BY <3>1, <3>2, BeginsTransitive
      <3> QED BY <1>2, <1>3, <2>2, <3>3 DEF ReadsVersion, Begins
    <2> QED BY <2>1, <2>2
  <1>4. \A t \in Thread : fd[t] # None /\ ReadsVersion(t) => ReadsVersion(t)'
    BY <1>3
  <1>5. Reading'
    BY <1>2, <1>4 DEF IInv, TypeOK, Reading
  <1> QED BY <1>1, <1>5 DEF IInv

\* What has not changed begins itself.
LEMMA BeginsItself ==
  ASSUME NEW c \in Content
  PROVE  Begins(c, c)
  <1>1. Len(c) \in Nat
    BY LenProperties DEF Content
  <1> QED BY <1>1 DEF Begins

LEMMA CreateStep ==
  ASSUME IInv, NEW n \in Name, NEW i \in Inode, NEW k \in Kind, Create(n, i, k)
  PROVE  IInv'
  <1> USE ConstantsAssumption DEF Create, frame
  <1>1. TypeOK'
    BY DEF IInv, TypeOK
  <1>2. ASSUME NEW t \in Thread, fd[t] # None
        PROVE  Begins(data[Opened(t)], data'[Opened(t)])
    BY <1>2, BeginsItself DEF IInv, TypeOK, Reading
  <1> QED BY <1>1, <1>2, FilesStep

LEMMA UnlinkStep ==
  ASSUME IInv, NEW n \in Name, Unlink(n)
  PROVE  IInv'
  <1> USE ConstantsAssumption DEF Unlink, frame
  <1>1. TypeOK'
    <2>1. kind' \in [Inode -> Kind] /\ data' \in [Inode -> Content]
      BY ReclaimTypes DEF IInv
    <2> QED BY <2>1 DEF IInv, TypeOK
  <1>2. ASSUME NEW t \in Thread, fd[t] # None
        PROVE  Begins(data[Opened(t)], data'[Opened(t)])
    <2>1. data'[Opened(t)] = data[Opened(t)]
      BY <1>2, ReclaimKeeps
    <2>2. data[Opened(t)] \in Content
      BY <1>2 DEF IInv, TypeOK, Reading
    <2> QED BY <2>1, <2>2, BeginsItself
  <1> QED BY <1>1, <1>2, FilesStep

\* rename() puts another file in the place of one that stays open.
LEMMA ReplaceStep ==
  ASSUME IInv, NEW n \in Name, NEW i \in Inode, NEW c \in NewContent, Replace(n, i, c)
  PROVE  IInv'
  <1> USE ConstantsAssumption DEF Replace, frame
  <1>1. c \in Content /\ <<>> \in Content
    BY EmptySeq, SeqDef DEF NewContent, Content
  <1>2. data' \in [Inode -> Content]
    BY <1>1 DEF IInv, TypeOK
  <1>3. TypeOK'
    BY <1>2 DEF IInv, TypeOK, Kind
  <1>4. ASSUME NEW t \in Thread, fd[t] # None
        PROVE  Begins(data[Opened(t)], data'[Opened(t)])
    <2>0. PICK j : j = Opened(t)
      OBVIOUS
    <2>1. fd[t] \in Fd /\ j \in Inode /\ table'[fd[t]] = j /\ table[fd[t]] = j
      BY <1>4, <2>0, OwnDescriptor DEF Opened
    <2>2. j # i /\ ~Free(j)'
      BY <2>1 DEF Free
    <2>3. data'[j] = data[j] /\ data[j] \in Content
      BY <2>1, <2>2 DEF IInv, TypeOK
    <2> QED BY <2>0, <2>3, BeginsItself
  <1> QED BY <1>3, <1>4, FilesStep

LEMMA ExtendStep ==
  ASSUME IInv, NEW i \in Inode, NEW b \in Block, Extend(i, b)
  PROVE  IInv'
  <1> USE ConstantsAssumption DEF Extend, frame
  <1>1. /\ data[i] \in Content /\ Append(data[i], b) \in Content
        /\ Begins(data[i], Append(data[i], b))
    <2>1. data[i] \in Seq(Block)
      BY DEF IInv, TypeOK, Content
    <2>2. Len(data[i]) \in Nat
      BY <2>1, LenProperties
    <2> QED BY <2>1, <2>2, AppendProperties DEF Content, Begins
  <1>2. TypeOK'
    BY <1>1 DEF IInv, TypeOK
  <1>3. ASSUME NEW t \in Thread, fd[t] # None
        PROVE  Begins(data[Opened(t)], data'[Opened(t)])
    <2>1. Opened(t) \in Inode /\ data[Opened(t)] \in Content
      BY <1>3 DEF IInv, TypeOK, Reading
    <2>2. data'[Opened(t)] = IF Opened(t) = i THEN Append(data[i], b) ELSE data[Opened(t)]
      BY <2>1 DEF IInv, TypeOK
    <2> QED BY <1>1, <2>1, <2>2, BeginsItself
  <1> QED BY <1>2, <1>3, FilesStep

\* A write in place marks the calls that have the file open.
LEMMA TearsStep ==
  ASSUME IInv, NEW i \in Inode, Tears(i), NEW c \in Content, data' = [data EXCEPT ![i] = c],
         UNCHANGED <<dir, kind, table, others, pc, name, fd, size, buf, outcome, version>>
  PROVE  IInv'
  <1> USE ConstantsAssumption DEF Tears
  <1>1. TypeOK'
    BY DEF IInv, TypeOK
  <1>2. ASSUME NEW t \in Thread, fd[t] # None
        PROVE  t \in torn' \/ Begins(data[Opened(t)], data'[Opened(t)])
    <2>1. Opened(t) \in Inode /\ data[Opened(t)] \in Content
      BY <1>2 DEF IInv, TypeOK, Reading
    <2>2. Opened(t) # i => data'[Opened(t)] = data[Opened(t)]
      BY <2>1 DEF IInv, TypeOK
    <2> QED BY <1>2, <2>1, <2>2, BeginsItself
  <1> QED BY <1>1, <1>2, FilesStep

LEMMA TruncateStep ==
  ASSUME IInv, NEW i \in Inode, Truncate(i)
  PROVE  IInv'
  <1>1. PICK m \in 0 .. Len(data[i]) - 1 : data' = [data EXCEPT ![i] = SubSeq(@, 1, m)]
    BY DEF Truncate
  <1>2. data[i] \in Seq(Block) /\ data[i] \in Content
    BY DEF IInv, TypeOK, Content
  <1>3. SubSeq(data[i], 1, m) \in Content
    BY <1>2, SubSeqProperties, LenProperties DEF Content
  <1>4. data' = [data EXCEPT ![i] = SubSeq(data[i], 1, m)]
    BY <1>1
  <1> QED BY <1>3, <1>4, TearsStep DEF Truncate

LEMMA OverwriteStep ==
  ASSUME IInv, NEW i \in Inode, NEW k \in 1..MaxSize, NEW b \in Block, Overwrite(i, k, b)
  PROVE  IInv'
  <1>1. data[i] \in Seq(Block) /\ k \in 1 .. Len(data[i])
    BY DEF IInv, TypeOK, Content, Overwrite
  <1>2. [data[i] EXCEPT ![k] = b] \in Content
    BY <1>1, ExceptSeq DEF Content
  <1>3. data' = [data EXCEPT ![i] = [data[i] EXCEPT ![k] = b]]
    BY DEF Overwrite
  <1> QED BY <1>2, <1>3, TearsStep DEF Overwrite

\* Other code opens and closes descriptors that no call holds.
LEMMA OthersStep ==
  ASSUME IInv, NEW f \in Fd, OtherOpens(f) \/ OtherCloses(f)
  PROVE  IInv'
  <1> USE ConstantsAssumption DEF OtherOpens, OtherCloses, files, frame
  <1>1. \A t \in Thread : fd[t] # f
    BY DEF IInv, DescriptorsAreHeld
  <1>2. TypeOK'
    BY DEF IInv, TypeOK
  <1>3. DescriptorsAreHeld'
    BY <1>1 DEF IInv, TypeOK, DescriptorsAreHeld
  <1>4. \A t \in Thread : fd[t] # None => Opened(t)' = Opened(t)
    BY <1>1 DEF IInv, TypeOK, Opened
  <1>5. \A t \in Thread : fd[t] # None /\ ReadsVersion(t) => ReadsVersion(t)'
    BY <1>4 DEF ReadsVersion, Begins
  <1>6. Reading'
    BY <1>4, <1>5 DEF IInv, TypeOK, Reading
  <1> QED BY <1>2, <1>3, <1>6 DEF IInv

-----------------------------------------------------------------------------
LEMMA InitIInv == Init => IInv
  <1> SUFFICES ASSUME Init PROVE IInv
    OBVIOUS
  <1>1. <<>> \in Content
    BY EmptySeq DEF Content
  <1>2. TypeOK
    BY <1>1 DEF Init, TypeOK, Kind
  <1>3. DescriptorsAreHeld
    BY ConstantsAssumption DEF Init, DescriptorsAreHeld
  <1>4. Reading
    BY DEF Init, Reading
  <1> QED BY <1>2, <1>3, <1>4 DEF IInv

LEMMA NextIInv == IInv /\ [Next]_vars => IInv'
  <1> SUFFICES ASSUME IInv, [Next]_vars PROVE IInv'
    OBVIOUS
  <1>1. ASSUME NEW t \in Thread, Continue(t) PROVE IInv'
    BY <1>1, OpenFailsStep, OpenStep, FstatStep, ReadBlockStep, ReadEndsStep, CloseStep
    DEF Continue, Open
  <1>2. ASSUME NEW t \in Thread, Fail(t) PROVE IInv'
    BY <1>2, OpenFailsStep, FailStep DEF Fail
  <1>3. ASSUME NEW t \in Thread, OpenFifo(t) PROVE IInv'
    BY <1>3, OpenStep DEF OpenFifo
  <1>4. ASSUME NEW t \in Thread, NEW n \in Name, Call(t, n) PROVE IInv'
    BY <1>4, CallStep
  <1>5. CASE World
    BY <1>5, CreateStep, ReplaceStep, UnlinkStep, ExtendStep, OverwriteStep, TruncateStep,
       OthersStep DEF World
  <1>6. CASE UNCHANGED vars
    <2> USE <1>6 DEF vars, files, frame
    <2>1. TypeOK'
      BY DEF IInv, TypeOK
    <2> QED BY <2>1 DEF IInv, DescriptorsAreHeld, Reading, ReadsVersion, Begins, Opened
  <1> QED BY <1>1, <1>2, <1>3, <1>4, <1>5, <1>6 DEF Next

LEMMA Invariance == Spec => []IInv
  BY InitIInv, NextIInv, PTL DEF Spec

\* The state is well-formed: a call has a descriptor from open() to close(),
\* and at no other time.
THEOREM TypeCorrect == Spec => []TypeOK
  <1>1. IInv => TypeOK
    BY DEF IInv
  <1> QED BY <1>1, Invariance, PTL

\* However calls, failures and other code that uses descriptors interleave,
\* ResourcePtr closes the descriptor of each call once, and no other.
THEOREM DescriptorsAreHeldHolds == Spec => []DescriptorsAreHeld
  <1>1. IInv => DescriptorsAreHeld
    BY DEF IInv
  <1> QED BY <1>1, Invariance, PTL

\* read_file() returns one version of the file, whatever becomes of the file
\* meanwhile, unless it is written over in place.
THEOREM ReturnsAVersionHolds == Spec => []ReturnsAVersion
  <1>1. ASSUME IInv PROVE ReturnsAVersion
    <2>1. SUFFICES ASSUME NEW t \in Thread, pc[t] = "close", outcome[t] = "ok"
                   PROVE  Len(buf[t]) = size[t] /\ (t \notin torn => buf[t] = version[t])
      BY DEF ReturnsAVersion
    <2>2. ReadsVersion(t) /\ Len(buf[t]) = size[t]
      BY <1>1, <2>1 DEF IInv, Reading
    <2>3. buf[t] \in Content /\ version[t] \in Content
      BY <1>1 DEF IInv, TypeOK
    <2> QED BY <2>2, <2>3, BeginsEqual DEF ReadsVersion
  <1> QED BY <1>1, Invariance, PTL

-----------------------------------------------------------------------------
(* Calls in progress advance.                                              *)

StaysOrAdvances(t) ==
  pc[t] # "idle" => UNCHANGED <<pc[t], size[t], buf[t]>> \/ Advances(t)

\* A step of t leaves the calls of the other threads where they are.
LEMMA OneAdvances ==
  ASSUME TypeOK, NEW t \in Thread, Continue(t) \/ Fail(t) \/ OpenFifo(t), NEW u \in Thread \ {t}
  PROVE  UNCHANGED <<pc[u], size[u], buf[u]>>
  <1>1. CASE OpenFails(t) \/ Open(t) \/ OpenFifo(t)
    BY <1>1 DEF TypeOK, OpenFails, Open, OpenFifo, OpenAs
  <1>2. CASE Fstat(t) \/ FstatFails(t)
    BY <1>2 DEF TypeOK, Fstat, FstatFails, End
  <1>3. CASE ReadBlock(t) \/ ReadEnds(t) \/ ReadFails(t)
    BY <1>3 DEF TypeOK, ReadBlock, ReadEnds, ReadFails, End
  <1>4. CASE Close(t)
    BY <1>4 DEF TypeOK, Close
  <1> QED BY <1>1, <1>2, <1>3, <1>4 DEF Continue, Fail

\* Each system call brings a call to its next stage, or one block further.
LEMMA StepAdvances ==
  ASSUME IInv, NEW t \in Thread, Continue(t) \/ Fail(t) \/ OpenFifo(t)
  PROVE  Advances(t)
  <1> USE DEF IInv, TypeOK, Advances, Later
  <1>1. CASE OpenFails(t) \/ Open(t) \/ OpenFifo(t)
    BY <1>1 DEF OpenFails, Open, OpenFifo, OpenAs
  <1>2. CASE Fstat(t) \/ FstatFails(t)
    BY <1>2 DEF Fstat, FstatFails, End
  <1>3. CASE ReadEnds(t) \/ ReadFails(t)
    BY <1>3 DEF ReadEnds, ReadFails, End
  <1>4. CASE Close(t)
    BY <1>4 DEF Close
  <1>5. CASE ReadBlock(t)
    <2>1. /\ fd[t] # None /\ Opened(t) \in Inode
          /\ buf[t] \in Seq(Block) /\ data[Opened(t)] \in Seq(Block)
      BY <1>5 DEF ReadBlock, Reading, Content
    <2>2. Len(buf[t]) \in Nat /\ Len(data[Opened(t)]) \in Nat
      BY <2>1, LenProperties
    <2>3. Len(buf[t]) + 1 \in 1 .. Len(data[Opened(t)])
      BY <1>5, <2>2 DEF ReadBlock
    <2>4. data[Opened(t)][Len(buf[t]) + 1] \in Block
      BY <2>1, <2>3, ElementOfSeq
    <2>5. /\ buf'[t] = Append(buf[t], data[Opened(t)][Len(buf[t]) + 1])
          /\ pc[t] = "read" /\ pc'[t] = "read" /\ size'[t] = size[t]
          /\ Len(buf[t]) + 1 <= size[t]
      BY <1>5 DEF ReadBlock
    <2>6. Len(buf'[t]) = Len(buf[t]) + 1
      BY <2>1, <2>4, <2>5, AppendProperties
    <2> QED BY <2>5, <2>6
  <1> QED BY <1>1, <1>2, <1>3, <1>4, <1>5 DEF Continue, Fail

\* No step of anybody else keeps a call from its end, for files of any size.
THEOREM CallsAdvanceHolds == Spec => CallsAdvance
  <1>1. ASSUME IInv, [Next]_vars, NEW u \in Thread
        PROVE  StaysOrAdvances(u)
    <2>1. ASSUME NEW t \in Thread, Continue(t) \/ Fail(t) \/ OpenFifo(t)
          PROVE  StaysOrAdvances(u)
      BY <1>1, <2>1, OneAdvances, StepAdvances DEF IInv, StaysOrAdvances
    <2>2. ASSUME NEW t \in Thread, NEW n \in Name, Call(t, n)
          PROVE  StaysOrAdvances(u)
      BY <1>1, <2>2 DEF IInv, TypeOK, Call, StaysOrAdvances
    <2>3. CASE World \/ UNCHANGED vars
      <3>1. UNCHANGED <<pc, size, buf>>
        BY <2>3 DEF World, Create, Replace, Unlink, Extend, Truncate, Overwrite, OtherOpens,
                    OtherCloses, vars, frame
      <3> QED BY <3>1 DEF StaysOrAdvances
    <2> QED BY <1>1, <2>1, <2>2, <2>3 DEF Next
  <1>2. IInv /\ [Next]_vars =>
          [\A t \in Thread : pc[t] # "idle" =>
             UNCHANGED <<pc[t], size[t], buf[t]>> \/ Advances(t)]_vars
    BY <1>1 DEF StaysOrAdvances
  <1> QED BY <1>2, Invariance, PTL DEF Spec, CallsAdvance
=============================================================================
