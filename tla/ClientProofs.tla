----------------------------- MODULE ClientProofs -----------------------------
(***************************************************************************)
(* Proofs about DeviceKey, for any set of processes, any number of loads   *)
(* and deaths at any step; and about Client, for any number of agents,     *)
(* commands and options: the processes use the key file as DeviceKey       *)
(* describes, none sends a request to an agent it should not trust, and a  *)
(* replay prints what is due to its key.                                   *)
(***************************************************************************)
EXTENDS Client, SequenceTheorems, TLAPS

-----------------------------------------------------------------------------
(***************************************************************************)
(* The key file.                                                           *)
(***************************************************************************)
(* An inode without bytes is about to get them, or lost its writer.        *)
EmptyIsBeingWritten ==
  \A i \in 1 .. Len(inode) :
    inode[i] = Empty => torn \/ \E p \in Process : pc[p] = "write" /\ fd[p] = i

(* A process that creates the key has one, and the two names never share   *)
(* an inode.                                                               *)
CreatorHasKey == \A p \in Process : pc[p] \in Creating => secret[p] # None

NamesDiffer == tmp # None => tmp # path

(* Without overlapping first runs: one process creates the key, and only   *)
(* while there is none; the temporary file is its own; who reads has the   *)
(* file under the path.                                                    *)
OneCreator ==
  \A p \in Process : pc[p] \in Creating =>
    /\ path = None
    /\ \A q \in Process : pc[q] \in Creating => q = p

TmpIsCreators ==
  \A p \in Process :
    /\ pc[p] = "write" => tmp # None /\ fd[p] = tmp
    /\ pc[p] \in {"permit", "rename"} => tmp # None /\ inode[tmp] = secret[p]

ReadersHavePath == \A p \in Process : pc[p] = "read" => path # None /\ fd[p] = path

UsedIsStored ==
  /\ path # None => inode[path] # Empty
  /\ \A key \in used : path # None /\ inode[path] = key

Unraced == OneCreator /\ TmpIsCreators /\ ReadersHavePath /\ UsedIsStored

IInv ==
  /\ DeviceTypeOK
  /\ EmptyIsBeingWritten
  /\ CreatorHasKey
  /\ NamesDiffer
  /\ ~raced => Unraced

-----------------------------------------------------------------------------
LEMMA Extended ==
  ASSUME NEW s \in Seq(Nat), NEW v \in Nat
  PROVE  /\ Append(s, v) \in Seq(Nat)
         /\ Len(Append(s, v)) = Len(s) + 1
         /\ Append(s, v)[Len(s) + 1] = v
         /\ \A j \in 1 .. Len(s) : Append(s, v)[j] = s[j]
OBVIOUS

LEMMA Overwritten ==
  ASSUME NEW s \in Seq(Nat), NEW i \in 1 .. Len(s), NEW v \in Nat
  PROVE  /\ [s EXCEPT ![i] = v] \in Seq(Nat)
         /\ Len([s EXCEPT ![i] = v]) = Len(s)
         /\ [s EXCEPT ![i] = v][i] = v
         /\ \A j \in 1 .. Len(s) : j # i => [s EXCEPT ![i] = v][j] = s[j]
BY ExceptSeq

LEMMA InitHolds == DeviceInit => IInv
<1> SUFFICES ASSUME DeviceInit PROVE IInv
    OBVIOUS
<1>1. <<>> \in Seq(Nat) /\ Len(<<>>) = 0
      OBVIOUS
<1>2. DeviceTypeOK
      BY <1>1 DEF DeviceInit, DeviceTypeOK, Pc, None
<1>3. EmptyIsBeingWritten /\ CreatorHasKey /\ NamesDiffer
      BY DEF DeviceInit, EmptyIsBeingWritten, CreatorHasKey, NamesDiffer, Creating
<1>4. Unraced
      BY DEF DeviceInit, Unraced, OneCreator, TmpIsCreators, ReadersHavePath,
             UsedIsStored, Creating
<1> QED BY <1>2, <1>3, <1>4 DEF IInv

-----------------------------------------------------------------------------
(* A process that is through changes no file.                              *)
LEMMA FailType ==
  ASSUME DeviceTypeOK, NEW p \in Process, Fail(p), UNCHANGED <<files, made>>
  PROVE  DeviceTypeOK'
BY DEF DeviceTypeOK, Fail, Goto, Pc, files, None

LEMMA ReturnType ==
  ASSUME DeviceTypeOK, NEW p \in Process, NEW key \in Nat, Return(p, key),
         UNCHANGED <<inode, made>>, path' \in {path, tmp}, tmp' \in {tmp, None}
  PROVE  DeviceTypeOK'
BY DEF DeviceTypeOK, Return, Goto, Pc, None

LEMMA TypeStep == DeviceTypeOK /\ [DeviceNext]_device => DeviceTypeOK'
<1> SUFFICES ASSUME DeviceTypeOK, [DeviceNext]_device PROVE DeviceTypeOK'
    OBVIOUS
<1>1. ASSUME NEW p \in Process, Load(p) PROVE DeviceTypeOK'
      BY <1>1 DEF Load, DeviceTypeOK, Goto, Pc, Loading, files, None
<1>2. ASSUME NEW p \in Process, OpenKey(p) PROVE DeviceTypeOK'
      BY <1>2 DEF OpenKey, DeviceTypeOK, Goto, Pc, Loading, files, None
<1>3. ASSUME NEW p \in Process, ReadKey(p) PROVE DeviceTypeOK'
  <2>1. fd[p] \in 1 .. Len(inode) /\ inode[fd[p]] \in Nat
        BY <1>3 DEF ReadKey, DeviceTypeOK, None
  <2>2. UNCHANGED <<files, made>>
        BY <1>3 DEF ReadKey
  <2>3. CASE inode[fd[p]] = Empty
        BY <1>3, <2>2, <2>3, FailType DEF ReadKey
  <2>4. CASE inode[fd[p]] # Empty
        BY <1>3, <2>1, <2>2, <2>4, ReturnType DEF ReadKey, files
  <2> QED BY <2>3, <2>4
<1>4. ASSUME NEW p \in Process, NotFound(p) PROVE DeviceTypeOK'
      BY <1>4 DEF NotFound, DeviceTypeOK, Goto, Pc, Loading, Creating, files
<1>5. ASSUME NEW p \in Process, CreateTmp(p) PROVE DeviceTypeOK'
  <2>1. CASE tmp = None
    <3>1. inode' = Append(inode, Empty) /\ tmp' = Len(inode')
          BY <1>5, <2>1 DEF CreateTmp
    <3>2. Len(inode') = Len(inode) + 1 /\ inode' \in Seq(Nat)
          BY <3>1, Extended DEF DeviceTypeOK, Empty
    <3> QED BY <1>5, <3>1, <3>2
            DEF CreateTmp, DeviceTypeOK, Goto, Pc, Loading, Creating, None
  <2>2. CASE tmp # None
    <3>1. inode' = [inode EXCEPT ![tmp] = Empty] /\ tmp' = tmp
          BY <1>5, <2>2 DEF CreateTmp
    <3>2. Len(inode') = Len(inode) /\ inode' \in Seq(Nat)
          BY <2>2, <3>1, Overwritten DEF DeviceTypeOK, Empty, None
    <3> QED BY <1>5, <2>2, <3>1, <3>2
            DEF CreateTmp, DeviceTypeOK, Goto, Pc, Loading, Creating, None
  <2> QED BY <2>1, <2>2
<1>6. ASSUME NEW p \in Process, WriteTmp(p) PROVE DeviceTypeOK'
  <2>1. inode' = [inode EXCEPT ![fd[p]] = secret[p]]
        BY <1>6 DEF WriteTmp
  <2>2. fd[p] \in 1 .. Len(inode) /\ secret[p] \in Nat
        BY <1>6 DEF WriteTmp, DeviceTypeOK, None
  <2>3. Len(inode') = Len(inode) /\ inode' \in Seq(Nat)
        BY <2>1, <2>2, Overwritten DEF DeviceTypeOK
  <2> QED BY <1>6, <2>3 DEF WriteTmp, DeviceTypeOK, Goto, Pc, Loading, Creating
<1>7. ASSUME NEW p \in Process, SetPermissions(p) PROVE DeviceTypeOK'
  <2>1. UNCHANGED <<files, made>>
        BY <1>7 DEF SetPermissions
  <2>2. CASE tmp = None
        BY <1>7, <2>1, <2>2, FailType DEF SetPermissions
  <2>3. CASE tmp # None
        BY <1>7, <2>1, <2>3
        DEF SetPermissions, DeviceTypeOK, Goto, Pc, Loading, Creating, files
  <2> QED BY <2>2, <2>3
<1>8. ASSUME NEW p \in Process, Rename(p) PROVE DeviceTypeOK'
  <2>1. secret[p] \in Nat /\ UNCHANGED <<inode, made>>
        BY <1>8 DEF Rename, DeviceTypeOK
  <2>2. CASE tmp = None
        BY <1>8, <2>1, <2>2, FailType DEF Rename, files
  <2>3. CASE tmp # None
        BY <1>8, <2>1, <2>3, ReturnType DEF Rename
  <2> QED BY <2>2, <2>3
<1>9. ASSUME NEW p \in Process, Dies(p) PROVE DeviceTypeOK'
      BY <1>9, FailType DEF Dies
<1>10. CASE UNCHANGED device
       BY <1>10 DEF device, files, DeviceTypeOK
<1> QED BY <1>1, <1>2, <1>3, <1>4, <1>5, <1>6, <1>7, <1>8, <1>9, <1>10
        DEF DeviceNext, LoadStep
-----------------------------------------------------------------------------
(* A creator has a key from the time it finds no file.                     *)
LEMMA CreatorStep ==
  DeviceTypeOK /\ CreatorHasKey /\ [DeviceNext]_device => CreatorHasKey'
<1> SUFFICES ASSUME DeviceTypeOK, CreatorHasKey, [DeviceNext]_device
             PROVE  CreatorHasKey'
    OBVIOUS
<1> USE DEF DeviceTypeOK, CreatorHasKey, Creating, Goto, Return, Fail, None
<1>1. ASSUME NEW p \in Process, Load(p) PROVE CreatorHasKey'
      BY <1>1 DEF Load
<1>2. ASSUME NEW p \in Process, OpenKey(p) PROVE CreatorHasKey'
      BY <1>2 DEF OpenKey
<1>3. ASSUME NEW p \in Process, ReadKey(p) PROVE CreatorHasKey'
      BY <1>3, ZenonT(40) DEF ReadKey
<1>4. ASSUME NEW p \in Process, NotFound(p) PROVE CreatorHasKey'
      BY <1>4 DEF NotFound
<1>5. ASSUME NEW p \in Process, CreateTmp(p) PROVE CreatorHasKey'
      BY <1>5 DEF CreateTmp
<1>6. ASSUME NEW p \in Process, WriteTmp(p) PROVE CreatorHasKey'
      BY <1>6 DEF WriteTmp
<1>7. ASSUME NEW p \in Process, SetPermissions(p) PROVE CreatorHasKey'
      BY <1>7 DEF SetPermissions
<1>8. ASSUME NEW p \in Process, Rename(p) PROVE CreatorHasKey'
      BY <1>8 DEF Rename
<1>9. ASSUME NEW p \in Process, Dies(p) PROVE CreatorHasKey'
      BY <1>9 DEF Dies
<1>10. CASE UNCHANGED device
       BY <1>10 DEF device
<1> HIDE DEF DeviceTypeOK, CreatorHasKey, Creating, Goto, Return, Fail, None
<1> QED BY <1>1, <1>2, <1>3, <1>4, <1>5, <1>6, <1>7, <1>8, <1>9, <1>10
        DEF DeviceNext, LoadStep

(* The temporary file becomes the key's in one step, and is another then.  *)
LEMMA NamesStep ==
  DeviceTypeOK /\ NamesDiffer /\ [DeviceNext]_device => NamesDiffer'
<1> SUFFICES ASSUME DeviceTypeOK, NamesDiffer, [DeviceNext]_device PROVE NamesDiffer'
    OBVIOUS
<1>1. ASSUME NEW p \in Process, Load(p) PROVE NamesDiffer'
      BY <1>1 DEF Load, DeviceTypeOK, NamesDiffer, files, None
<1>2. ASSUME NEW p \in Process, OpenKey(p) PROVE NamesDiffer'
      BY <1>2 DEF OpenKey, DeviceTypeOK, NamesDiffer, files, None
<1>3. ASSUME NEW p \in Process, ReadKey(p) PROVE NamesDiffer'
      BY <1>3 DEF ReadKey, DeviceTypeOK, NamesDiffer, files, None
<1>4. ASSUME NEW p \in Process, NotFound(p) PROVE NamesDiffer'
      BY <1>4 DEF NotFound, DeviceTypeOK, NamesDiffer, files, None
<1>5. ASSUME NEW p \in Process, CreateTmp(p) PROVE NamesDiffer'
  <2>1. CASE tmp = None
    <3>1. tmp' = Len(Append(inode, Empty)) /\ path' = path
          BY <1>5, <2>1 DEF CreateTmp
    <3>2. tmp' = Len(inode) + 1
          BY <3>1, Extended DEF DeviceTypeOK, Empty
    <3> QED BY <3>1, <3>2 DEF NamesDiffer, DeviceTypeOK
  <2>2. CASE tmp # None
        BY <1>5, <2>2 DEF CreateTmp, NamesDiffer
  <2> QED BY <2>1, <2>2
<1>6. ASSUME NEW p \in Process, WriteTmp(p) PROVE NamesDiffer'
      BY <1>6 DEF WriteTmp, DeviceTypeOK, NamesDiffer, files, None
<1>7. ASSUME NEW p \in Process, SetPermissions(p) PROVE NamesDiffer'
      BY <1>7 DEF SetPermissions, DeviceTypeOK, NamesDiffer, files, None
<1>8. ASSUME NEW p \in Process, Rename(p) PROVE NamesDiffer'
      BY <1>8 DEF Rename, DeviceTypeOK, NamesDiffer, files, None
<1>9. ASSUME NEW p \in Process, Dies(p) PROVE NamesDiffer'
      BY <1>9 DEF Dies, DeviceTypeOK, NamesDiffer, files, None
<1>10. CASE UNCHANGED device
       BY <1>10 DEF device, files, DeviceTypeOK, NamesDiffer, files, None
<1> QED BY <1>1, <1>2, <1>3, <1>4, <1>5, <1>6, <1>7, <1>8, <1>9, <1>10
        DEF DeviceNext, LoadStep

LEMMA EmptyKept ==
  ASSUME EmptyIsBeingWritten, inode' = inode, torn => torn',
         \A q \in Process : pc[q] = "write" => pc'[q] = "write" /\ fd'[q] = fd[q]
  PROVE  EmptyIsBeingWritten'
BY DEF EmptyIsBeingWritten

(* An inode is emptied by the one who will write it, and left empty only   *)
(* when that one dies.                                                     *)
LEMMA EmptyStep ==
  DeviceTypeOK /\ CreatorHasKey /\ EmptyIsBeingWritten /\ [DeviceNext]_device
    => EmptyIsBeingWritten'
<1> SUFFICES ASSUME DeviceTypeOK, CreatorHasKey, EmptyIsBeingWritten, [DeviceNext]_device
             PROVE  EmptyIsBeingWritten'
    OBVIOUS
<1>1. ASSUME NEW p \in Process, Load(p) PROVE EmptyIsBeingWritten'
  <2>1. /\ inode' = inode /\ torn' = torn
        /\ \A q \in Process : pc[q] = "write" => pc'[q] = "write" /\ fd'[q] = fd[q]
        BY <1>1 DEF Load, DeviceTypeOK, files, Goto, Return, Fail
  <2> QED BY <2>1, EmptyKept
<1>2. ASSUME NEW p \in Process, OpenKey(p) PROVE EmptyIsBeingWritten'
  <2>1. /\ inode' = inode /\ torn' = torn
        /\ \A q \in Process : pc[q] = "write" => pc'[q] = "write" /\ fd'[q] = fd[q]
        BY <1>2 DEF OpenKey, DeviceTypeOK, files, Goto, Return, Fail
  <2> QED BY <2>1, EmptyKept
<1>3. ASSUME NEW p \in Process, ReadKey(p) PROVE EmptyIsBeingWritten'
  <2>1. /\ inode' = inode /\ torn' = torn
        /\ \A q \in Process : pc[q] = "write" => pc'[q] = "write" /\ fd'[q] = fd[q]
        BY <1>3 DEF ReadKey, DeviceTypeOK, files, Goto, Return, Fail
  <2> QED BY <2>1, EmptyKept
<1>4. ASSUME NEW p \in Process, NotFound(p) PROVE EmptyIsBeingWritten'
  <2>1. /\ inode' = inode /\ torn' = torn
        /\ \A q \in Process : pc[q] = "write" => pc'[q] = "write" /\ fd'[q] = fd[q]
        BY <1>4 DEF NotFound, DeviceTypeOK, files, Goto, Return, Fail
  <2> QED BY <2>1, EmptyKept
<1>5. ASSUME NEW p \in Process, CreateTmp(p) PROVE EmptyIsBeingWritten'
  <2>1. /\ pc' = [pc EXCEPT ![p] = "write"] /\ pc[p] = "create"
        /\ fd' = [fd EXCEPT ![p] = tmp'] /\ torn' = torn
        BY <1>5 DEF CreateTmp, Goto
  <2>2. pc'[p] = "write" /\ fd'[p] = tmp'
        BY <2>1 DEF DeviceTypeOK
  <2>3. ASSUME NEW q \in Process, pc[q] = "write"
        PROVE  pc'[q] = "write" /\ fd'[q] = fd[q]
        BY <2>1, <2>3 DEF DeviceTypeOK
  <2>4. \A i \in 1 .. Len(inode') : i # tmp' => i \in 1 .. Len(inode) /\ inode'[i] = inode[i]
    <3>1. CASE tmp = None
      <4>1. inode' = Append(inode, Empty) /\ tmp' = Len(inode')
            BY <1>5, <3>1 DEF CreateTmp
      <4> QED BY <4>1, Extended DEF DeviceTypeOK, Empty
    <3>2. CASE tmp # None
      <4>1. inode' = [inode EXCEPT ![tmp] = Empty] /\ tmp' = tmp
            BY <1>5, <3>2 DEF CreateTmp
      <4> QED BY <3>2, <4>1, Overwritten DEF DeviceTypeOK, Empty, None
    <3> QED BY <3>1, <3>2
  <2> QED BY <2>1, <2>2, <2>3, <2>4 DEF EmptyIsBeingWritten
<1>6. ASSUME NEW p \in Process, WriteTmp(p) PROVE EmptyIsBeingWritten'
  <2>1. /\ pc' = [pc EXCEPT ![p] = "permit"] /\ pc[p] = "write"
        /\ inode' = [inode EXCEPT ![fd[p]] = secret[p]]
        /\ fd' = fd /\ torn' = torn
        BY <1>6 DEF WriteTmp, Goto
  <2>2. fd[p] \in 1 .. Len(inode) /\ secret[p] \in Nat /\ secret[p] # Empty
        BY <2>1 DEF DeviceTypeOK, CreatorHasKey, Creating, None, Empty
  <2>3. /\ Len(inode') = Len(inode) /\ inode'[fd[p]] # Empty
        /\ \A i \in 1 .. Len(inode) : i # fd[p] => inode'[i] = inode[i]
        BY <2>1, <2>2, Overwritten DEF DeviceTypeOK
  <2>4. ASSUME NEW q \in Process, pc[q] = "write", q # p PROVE pc'[q] = "write"
        BY <2>1, <2>4 DEF DeviceTypeOK
  <2> QED BY <2>1, <2>3, <2>4 DEF EmptyIsBeingWritten
<1>7. ASSUME NEW p \in Process, SetPermissions(p) PROVE EmptyIsBeingWritten'
  <2>1. /\ inode' = inode /\ torn' = torn
        /\ \A q \in Process : pc[q] = "write" => pc'[q] = "write" /\ fd'[q] = fd[q]
        BY <1>7 DEF SetPermissions, DeviceTypeOK, files, Goto, Return, Fail
  <2> QED BY <2>1, EmptyKept
<1>8. ASSUME NEW p \in Process, Rename(p) PROVE EmptyIsBeingWritten'
  <2>1. /\ inode' = inode /\ torn' = torn
        /\ \A q \in Process : pc[q] = "write" => pc'[q] = "write" /\ fd'[q] = fd[q]
        BY <1>8 DEF Rename, DeviceTypeOK, files, Goto, Return, Fail
  <2> QED BY <2>1, EmptyKept
<1>9. ASSUME NEW p \in Process, Dies(p) PROVE EmptyIsBeingWritten'
      BY <1>9 DEF Dies, DeviceTypeOK, EmptyIsBeingWritten, files, Goto, Return, Fail
<1>10. CASE UNCHANGED device
       BY <1>10 DEF device, DeviceTypeOK, EmptyIsBeingWritten, files
<1> QED BY <1>1, <1>2, <1>3, <1>4, <1>5, <1>6, <1>7, <1>8, <1>9, <1>10
        DEF DeviceNext, LoadStep
-----------------------------------------------------------------------------
(* While first runs do not overlap: only a creator writes, it writes its   *)
(* own temporary file, and the first rename is the last.                   *)
LEMMA RacedStays == [DeviceNext]_device => (raced => raced')
<1>1. ASSUME NEW p \in Process, Load(p) \/ LoadStep(p) PROVE raced => raced'
      BY <1>1 DEF LoadStep, Load, OpenKey, ReadKey, NotFound, CreateTmp, WriteTmp,
                  SetPermissions, Rename, Dies
<1>2. UNCHANGED device => (raced => raced')
      BY DEF device
<1> QED BY <1>1, <1>2 DEF DeviceNext

LEMMA ReadUnraced ==
  ASSUME DeviceTypeOK, Unraced, NEW p \in Process, ReadKey(p)
  PROVE  Unraced'
<1>1. pc[p] = "read" /\ path # None /\ fd[p] = path /\ inode[path] # Empty
      BY DEF ReadKey, Unraced, ReadersHavePath, UsedIsStored
<1>2. Return(p, inode[path]) /\ UNCHANGED files
      BY <1>1 DEF ReadKey
<1>3. /\ pc' = [pc EXCEPT ![p] = "have"]
      /\ fd' = [fd EXCEPT ![p] = None]
      /\ secret' = [secret EXCEPT ![p] = inode[path]]
      /\ used' = used \cup {inode[path]}
      /\ path' = path /\ tmp' = tmp /\ inode' = inode
      BY <1>2 DEF Return, Goto, files
<1>4. OneCreator' /\ TmpIsCreators' /\ ReadersHavePath'
      BY <1>3 DEF DeviceTypeOK, Unraced, OneCreator, TmpIsCreators, ReadersHavePath, Creating
<1>5. UsedIsStored'
      BY <1>1, <1>3 DEF Unraced, UsedIsStored
<1> QED BY <1>4, <1>5 DEF Unraced

LEMMA RenameUnraced ==
  ASSUME DeviceTypeOK, CreatorHasKey, Unraced, NEW p \in Process, Rename(p)
  PROVE  Unraced'
<1>1. /\ pc[p] = "rename" /\ path = None /\ used = {}
      /\ tmp # None /\ inode[tmp] = secret[p] /\ secret[p] # Empty
      BY DEF Rename, CreatorHasKey, Unraced, OneCreator, TmpIsCreators, UsedIsStored,
             Creating, Empty, None
<1>2. path' = tmp /\ tmp' = None /\ Return(p, secret[p]) /\ inode' = inode
      BY <1>1 DEF Rename
<1>3. /\ pc' = [pc EXCEPT ![p] = "have"]
      /\ fd' = [fd EXCEPT ![p] = None]
      /\ secret' = [secret EXCEPT ![p] = secret[p]]
      /\ used' = {secret[p]}
      BY <1>1, <1>2 DEF Return, Goto
<1>4. \A q \in Process : pc'[q] \notin Creating \cup {"read"}
      BY <1>1, <1>3 DEF DeviceTypeOK, Unraced, OneCreator, ReadersHavePath, Creating
<1>5. OneCreator' /\ TmpIsCreators' /\ ReadersHavePath'
      BY <1>4 DEF OneCreator, TmpIsCreators, ReadersHavePath, Creating
<1>6. UsedIsStored'
      BY <1>1, <1>2, <1>3 DEF UsedIsStored
<1> QED BY <1>5, <1>6 DEF Unraced

LEMMA UnracedStep ==
  IInv /\ [DeviceNext]_device => (~raced' => Unraced')
<1> SUFFICES ASSUME DeviceTypeOK, CreatorHasKey, ~raced => Unraced,
                    [DeviceNext]_device, ~raced'
             PROVE  Unraced'
    BY DEF IInv
<1>0. ~raced /\ Unraced
      BY RacedStays
<1> USE <1>0 DEF DeviceTypeOK, Unraced, OneCreator, TmpIsCreators, ReadersHavePath,
                 UsedIsStored, Creating, Goto, Return, Fail, files, None
<1>1. ASSUME NEW p \in Process, Load(p) PROVE Unraced'
      BY <1>1 DEF Load
<1>2. ASSUME NEW p \in Process, OpenKey(p) PROVE Unraced'
      BY <1>2 DEF OpenKey
<1>3. ASSUME NEW p \in Process, ReadKey(p) PROVE Unraced'
      BY <1>3, ReadUnraced
<1>4. ASSUME NEW p \in Process, NotFound(p) PROVE Unraced'
      BY <1>4, ZenonT(40) DEF NotFound
<1>5. ASSUME NEW p \in Process, CreateTmp(p) PROVE Unraced'
      BY <1>5 DEF CreateTmp
<1>6. ASSUME NEW p \in Process, WriteTmp(p) PROVE Unraced'
      BY <1>6 DEF WriteTmp
<1>7. ASSUME NEW p \in Process, SetPermissions(p) PROVE Unraced'
      BY <1>7, ZenonT(40) DEF SetPermissions
<1>8. ASSUME NEW p \in Process, Rename(p) PROVE Unraced'
      BY <1>8, RenameUnraced
<1>9. ASSUME NEW p \in Process, Dies(p) PROVE Unraced'
      BY <1>9 DEF Dies
<1>10. CASE UNCHANGED device
       BY <1>10 DEF device
<1> HIDE DEF DeviceTypeOK, Unraced, OneCreator, TmpIsCreators, ReadersHavePath,
             UsedIsStored, Creating, Goto, Return, Fail, files, None
<1> QED BY <1>1, <1>2, <1>3, <1>4, <1>5, <1>6, <1>7, <1>8, <1>9, <1>10
        DEF DeviceNext, LoadStep

-----------------------------------------------------------------------------
LEMMA Inductive == IInv /\ [DeviceNext]_device => IInv'
<1> SUFFICES ASSUME IInv, [DeviceNext]_device PROVE IInv'
    OBVIOUS
<1>1. DeviceTypeOK' /\ CreatorHasKey' /\ NamesDiffer' /\ EmptyIsBeingWritten'
      BY TypeStep, CreatorStep, NamesStep, EmptyStep DEF IInv
<1>2. ~raced' => Unraced'
      BY UnracedStep
<1> QED BY <1>1, <1>2 DEF IInv

(* What the file and the processes keep to at every step of any number of  *)
(* loads (lib.rs:281-345).                                                 *)
THEOREM InvariantHolds == DeviceSpec => []IInv
BY InitHolds, Inductive, PTL DEF DeviceSpec

(* Names are numbers of existing inodes, and who reads or writes has a     *)
(* file open (lib.rs:281-345).                                             *)
THEOREM DeviceTypeCorrect == DeviceSpec => []DeviceTypeOK
<1>1. IInv => DeviceTypeOK
      BY DEF IInv
<1> QED BY <1>1, InvariantHolds, PTL

(* However many processes load and die wherever, the stored key lacks its  *)
(* bytes only after overlapping first runs, and then only while one of     *)
(* them writes, or because it died (lib.rs:332-345).                       *)
THEOREM KeyFileIsWhole == DeviceSpec => []KeyFileWhole
<1>1. IInv => KeyFileWhole
  <2> SUFFICES ASSUME IInv, path # None, inode[path] = Empty
               PROVE  raced /\ (torn \/ \E p \in Process : pc[p] = "write" /\ fd[p] = path)
      BY DEF KeyFileWhole
  <2>1. raced
        BY DEF IInv, Unraced, UsedIsStored
  <2>2. path \in 1 .. Len(inode)
        BY DEF IInv, DeviceTypeOK, None
  <2> QED BY <2>1, <2>2 DEF IInv, EmptyIsBeingWritten
<1> QED BY <1>1, InvariantHolds, PTL

(* As long as no two first runs overlapped, every key ever handed out is   *)
(* the stored one, whoever died at whichever step (lib.rs:281-296).        *)
THEOREM OneKeyPerDevice == DeviceSpec => []OneDeviceKey
<1>1. IInv => OneDeviceKey
      BY DEF IInv, Unraced, UsedIsStored, OneDeviceKey
<1> QED BY <1>1, InvariantHolds, PTL

-----------------------------------------------------------------------------
(***************************************************************************)
(* The client.                                                             *)
(***************************************************************************)
(* A process has the fields of one that starts.                            *)
Shaped(r) == DOMAIN Process0 \subseteq DOMAIN r

(* It dials with the key it has reason to trust, and talks to its owner.   *)
TrustsPeer(r) ==
  /\ r.at = "dial" => r.server = r.trusted
  /\ r.at = "call" => r.peer = r.trusted

TrustInv ==
  /\ DOMAIN run = Process
  /\ \A p \in Process : Shaped(run[p]) /\ TrustsPeer(run[p])

-----------------------------------------------------------------------------
(* Every step of the client is one of the key file, or leaves it alone.    *)
LEMMA ClientIsDevice == [Next]_vars => [DeviceNext]_device
<1>1. ASSUME NEW p \in Process, Start(p) \/ LoadHistoryKey(p) PROVE DeviceNext
      BY <1>1 DEF Start, LoadHistoryKey, DeviceNext
<1>2. ASSUME NEW p \in Process, LoadingKey(p) PROVE DeviceNext
      BY <1>2 DEF LoadingKey, DeviceNext
<1>3. ASSUME NEW p \in Process,
             \/ PrintKey(p) \/ FetchServerKey(p) \/ Handshake(p) \/ ConnectionFails(p)
             \/ CallReturns(p) \/ CallFails(p) \/ ReplayReturns(p) \/ Enrol(p)
      PROVE  UNCHANGED device
      BY <1>3 DEF PrintKey, FetchServerKey, Handshake, ConnectionFails, CallReturns,
                  CallFails, ReplayReturns, Enrol
<1>4. AgentRestarts \/ Record \/ UNCHANGED vars => UNCHANGED device
      BY DEF AgentRestarts, Record, vars
<1> QED BY <1>1, <1>2, <1>3, <1>4 DEF Next

(* The whole client, with its agents and transcripts, implements the key   *)
(* file's specification (main.rs:80-235 calls lib.rs:281-345 only so).     *)
THEOREM ClientImplementsDevice == Spec => DeviceSpec
<1>1. Init => DeviceInit
      BY DEF Init
<1> QED BY <1>1, ClientIsDevice, PTL DEF Spec, DeviceSpec

(* So its commands find the stored key whole (lib.rs:332-345), ...         *)
THEOREM ClientKeyFileIsWhole == Spec => []KeyFileWhole
BY ClientImplementsDevice, KeyFileIsWhole, PTL

(* ... and all of them one key, unless first runs overlapped               *)
(* (lib.rs:281-296).                                                       *)
THEOREM ClientHasOneKey == Spec => []OneDeviceKey
BY ClientImplementsDevice, OneKeyPerDevice, PTL

-----------------------------------------------------------------------------
(* What verification accepts is what the user wants.                       *)
LEMMA ReportsOfTokens ==
  ASSUME NEW token \in Tokens, NEW key, BindsKey(token.report_data, key)
  PROVE  /\ token.report_data.encoding # "unknown" /\ token.report_data.bytes \in {32, 64}
         /\ token.report_data.key = key /\ token.report_data.rest_zero
<1> DEFINE t == Token(agent)
           Binds(report) == BindsKey(report, key) =>
             /\ report.encoding # "unknown" /\ report.bytes \in {32, 64}
             /\ report.key = key /\ report.rest_zero
<1>1. \A a : Binds(Report(a))
      BY DEF BindsKey, Report
<1>2. CASE \E a \in 1 .. agent : token = Token(a)
      BY <1>1, <1>2 DEF Token
<1>3. CASE token \in {[t EXCEPT !.alg = "HS256"], [t EXCEPT !.kid = ""],
                      [t EXCEPT !.signed_by = "other"], [t EXCEPT !.iss = "other"]}
  <2>1. token.report_data = Report(agent)
        BY <1>3 DEF Token
  <2> QED BY <1>1, <2>1
<1>4. CASE \E late \in 0 .. 1 : token = [t EXCEPT !.exp = Now - Leeway - late]
  <2>1. token.report_data = Report(agent)
        BY <1>4 DEF Token
  <2> QED BY <1>1, <2>1
<1>5. CASE \/ \E m \in {"AA", "bb", ""} : token = [t EXCEPT !.mrtd = m]
           \/ \E s \in {"OutOfDate", ""} : token = [t EXCEPT !.tcb_status = s]
  <2>1. token.report_data = Report(agent)
        BY <1>5 DEF Token
  <2> QED BY <1>1, <2>1
<1>6. CASE token \in {[t EXCEPT !.report_data.encoding = "0x hex"],
                      [t EXCEPT !.report_data.encoding = "base64"],
                      [t EXCEPT !.report_data.encoding = "unknown"],
                      [t EXCEPT !.report_data.bytes = 48],
                      [t EXCEPT !.report_data.bytes = 32],
                      [t EXCEPT !.report_data.rest_zero = FALSE]}
  <2>1. token.report_data \in {[Report(agent) EXCEPT !.encoding = "0x hex"],
                               [Report(agent) EXCEPT !.encoding = "base64"],
                               [Report(agent) EXCEPT !.encoding = "unknown"],
                               [Report(agent) EXCEPT !.bytes = 48],
                               [Report(agent) EXCEPT !.bytes = 32],
                               [Report(agent) EXCEPT !.rest_zero = FALSE]}
        BY <1>6 DEF Token
  <2>2. CASE token.report_data = [Report(agent) EXCEPT !.encoding = "unknown"]
        BY <2>2 DEF BindsKey, Report
  <2>3. CASE token.report_data = [Report(agent) EXCEPT !.bytes = 48]
        BY <2>3 DEF BindsKey, Report
  <2>4. CASE token.report_data = [Report(agent) EXCEPT !.bytes = 32]
        BY <2>4 DEF BindsKey, Report
  <2>5. CASE token.report_data = [Report(agent) EXCEPT !.rest_zero = FALSE]
        BY <2>5 DEF BindsKey, Report
  <2>6. CASE \E e \in {"0x hex", "base64"} :
               token.report_data = [Report(agent) EXCEPT !.encoding = e]
        BY <2>6 DEF BindsKey, Report
  <2> QED BY <2>1, <2>2, <2>3, <2>4, <2>5, <2>6
<1>7. \/ \E a \in 1 .. agent : token = Token(a)
      \/ token \in {[t EXCEPT !.alg = "HS256"], [t EXCEPT !.kid = ""],
                    [t EXCEPT !.signed_by = "other"], [t EXCEPT !.iss = "other"]}
      \/ \E late \in 0 .. 1 : token = [t EXCEPT !.exp = Now - Leeway - late]
      \/ \E m \in {"AA", "bb", ""} : token = [t EXCEPT !.mrtd = m]
      \/ \E s \in {"OutOfDate", ""} : token = [t EXCEPT !.tcb_status = s]
      \/ \E e \in {"0x hex", "base64", "unknown"} :
           token = [t EXCEPT !.report_data.encoding = e]
      \/ token \in {[t EXCEPT !.report_data.bytes = 48],
                    [t EXCEPT !.report_data.bytes = 32],
                    [t EXCEPT !.report_data.rest_zero = FALSE]}
      BY Zenon DEF Tokens
<1> HIDE DEF t
<1> QED BY <1>2, <1>3, <1>4, <1>5, <1>6, <1>7, Zenon DEF t

LEMMA VerifiedIsTrusted ==
  ASSUME NEW health \in HealthReplies, NEW jwks \in {{}, {"k"}}, NEW flags,
         ServerKeyVerified(health, jwks, ConnectionOptions(flags))
  PROVE  Trusted(health, flags)
<1> DEFINE opts == ConnectionOptions(flags)
           pins == {Lower(m) : m \in flags.expected_mrtd} \ {""}
<1>1. /\ opts.skip = flags.insecure_skip_quote_verify
      /\ opts.expected_mrtds = pins
      /\ opts.expected_tcb = flags.expected_tcb
      BY DEF ConnectionOptions
<1> HIDE DEF opts
<1>2. CASE opts.skip
      BY <1>1, <1>2 DEF Trusted
<1>3. CASE ~opts.skip
  <2>1. PICK token \in health.ita_token :
          /\ TokenVerifies(token, jwks)
          /\ BindsKey(token.report_data, health.key)
          /\ MeasurementAccepted(token, opts)
        BY <1>3 DEF ServerKeyVerified, QuoteBound, opts
  <2>2. token \in Tokens
    <3>1. health.key_bytes = 32
          BY DEF ServerKeyVerified
    <3>2. \A h \in [ok : BOOLEAN, key : {agent}, key_bytes : {31},
                    ita_token : {{Token(agent)}}] : h.key_bytes = 31
          OBVIOUS
    <3>3. \A h \in [ok : {TRUE}, key : {agent}, key_bytes : {32},
                    ita_token : {{}} \cup {{t} : t \in Tokens}] :
            h.ita_token \in {{}} \cup {{t} : t \in Tokens}
          OBVIOUS
    <3>4. health.ita_token \in {{}} \cup {{t} : t \in Tokens}
      <4>1. 31 # 32
            OBVIOUS
      <4> QED BY <3>1, <3>2, <3>3, <4>1, Zenon DEF HealthReplies
    <3>5. health.ita_token \subseteq Tokens
          BY <3>4
    <3> QED BY <3>5
  <2>3. /\ token.report_data.encoding # "unknown" /\ token.report_data.bytes \in {32, 64}
        /\ token.report_data.key = health.key /\ token.report_data.rest_zero
        BY <2>1, <2>2, ReportsOfTokens
  <2>4. token.alg # "HS256" /\ token.signed_by = "k" /\ token.iss = Issuer /\ token.exp >= Now - Leeway
        BY <2>1 DEF TokenVerifies, AllowedAlgs
  <2>5. pins # {} => /\ Lower(token.mrtd) \in pins
                     /\ flags.expected_tcb # "" => token.tcb_status = flags.expected_tcb
        BY <1>1, <2>1 DEF MeasurementAccepted
  <2>6. Vouches(token, flags, health.key)
        BY <2>3, <2>4, <2>5 DEF Vouches
  <2> QED BY <2>6 DEF Trusted
<1> QED BY <1>2, <1>3

-----------------------------------------------------------------------------
(* Each step of a process keeps the trust in its peer.                     *)
LEMMA ProcessStep ==
  ASSUME TrustInv, NEW p \in Process, NEW r, Shaped(r), TrustsPeer(r),
         run' = [run EXCEPT ![p] = r]
  PROVE  TrustInv'
BY DEF TrustInv

LEMMA FailedTrusts == Shaped(Failed) /\ TrustsPeer(Failed)
BY DEF Failed, Process0, Shaped, TrustsPeer

LEMMA FetchTrusts ==
  ASSUME TrustInv, NEW p \in Process, FetchServerKey(p)
  PROVE  TrustInv'
<1>1. PICK health \in HealthReplies, jwks \in {{}, {"k"}}, flags \in Args :
        run' = [run EXCEPT ![p] =
                  IF ServerKeyVerified(health, jwks, ConnectionOptions(flags))
                  THEN [run[p] EXCEPT !.at = "dial", !.server = health.key,
                          !.trusted = IF Trusted(health, flags) THEN health.key ELSE None]
                  ELSE Failed]
      BY DEF FetchServerKey
<1>2. CASE ~ServerKeyVerified(health, jwks, ConnectionOptions(flags))
      BY <1>1, <1>2, FailedTrusts, ProcessStep
<1>3. CASE ServerKeyVerified(health, jwks, ConnectionOptions(flags))
  <2> DEFINE r == [run[p] EXCEPT !.at = "dial", !.server = health.key,
                                 !.trusted = health.key]
  <2>1. Trusted(health, flags)
        BY <1>3, VerifiedIsTrusted
  <2>2. run' = [run EXCEPT ![p] = r]
        BY <1>1, <1>3, <2>1
  <2>3. Shaped(r) /\ TrustsPeer(r)
        BY DEF TrustInv, Shaped, TrustsPeer
  <2> HIDE DEF r
  <2> QED BY <2>2, <2>3, ProcessStep
<1> QED BY <1>2, <1>3

LEMMA TrustStep == TrustInv /\ [Next]_vars => TrustInv'
<1> SUFFICES ASSUME TrustInv, [Next]_vars PROVE TrustInv'
    OBVIOUS
<1>1. ASSUME NEW p \in Process, Start(p) PROVE TrustInv'
  <2>1. PICK c \in Command :
          run' = [run EXCEPT ![p] = [Process0 EXCEPT !.cmd = c, !.at = "key"]]
        BY <1>1 DEF Start
  <2> QED BY <2>1, ProcessStep DEF Process0, Shaped, TrustsPeer
<1>2. ASSUME NEW p \in Process, LoadingKey(p) PROVE TrustInv'
      BY <1>2, FailedTrusts, ProcessStep DEF LoadingKey, TrustInv
<1>3. ASSUME NEW p \in Process, PrintKey(p) PROVE TrustInv'
  <2>1. run' = [run EXCEPT ![p] = [run[p] EXCEPT !.at = "done"]]
        BY <1>3 DEF PrintKey
  <2> QED BY <2>1, ProcessStep DEF TrustInv, Shaped, TrustsPeer
<1>4. ASSUME NEW p \in Process, LoadHistoryKey(p) PROVE TrustInv'
  <2>1. run' = [run EXCEPT ![p] = [run[p] EXCEPT !.history_key = secret[p]]]
        BY <1>4 DEF LoadHistoryKey
  <2> QED BY <2>1, ProcessStep DEF TrustInv, Shaped, TrustsPeer
<1>5. ASSUME NEW p \in Process, FetchServerKey(p) PROVE TrustInv'
      BY <1>5, FetchTrusts
<1>6. ASSUME NEW p \in Process, Handshake(p) PROVE TrustInv'
  <2>1. CASE run[p].server = agent
    <3> DEFINE r == [run[p] EXCEPT !.at = "call", !.peer = agent,
                                   !.left = Requests[run[p].cmd]]
    <3>1. run' = [run EXCEPT ![p] = r] /\ run[p].at = "dial"
          BY <1>6, <2>1 DEF Handshake
    <3>2. Shaped(r) /\ TrustsPeer(r)
          BY <2>1, <3>1 DEF TrustInv, Shaped, TrustsPeer
    <3> HIDE DEF r
    <3> QED BY <3>1, <3>2, ProcessStep
  <2>2. CASE run[p].server # agent
        BY <1>6, <2>2, FailedTrusts, ProcessStep DEF Handshake
  <2> QED BY <2>1, <2>2
<1>7. ASSUME NEW p \in Process, ConnectionFails(p) \/ CallFails(p) PROVE TrustInv'
      BY <1>7, FailedTrusts, ProcessStep DEF ConnectionFails, CallFails
<1>8. ASSUME NEW p \in Process, CallReturns(p) PROVE TrustInv'
  <2>1. CASE Len(run[p].left) > 1
    <3>1. run' = [run EXCEPT ![p] = [run[p] EXCEPT !.left = Tail(run[p].left)]]
          BY <1>8, <2>1 DEF CallReturns
    <3> QED BY <3>1, ProcessStep DEF TrustInv, Shaped, TrustsPeer
  <2>2. CASE ~(Len(run[p].left) > 1)
    <3>1. run' = [run EXCEPT ![p] = [Done EXCEPT !.cmd = run[p].cmd]]
          BY <1>8, <2>2 DEF CallReturns
    <3> QED BY <3>1, ProcessStep DEF Done, Process0, Shaped, TrustsPeer
  <2> QED BY <2>1, <2>2
<1>9. ASSUME NEW p \in Process, ReplayReturns(p) PROVE TrustInv'
  <2>1. PICK lines \in Lines :
          run' = [run EXCEPT ![p] =
                    IF DecryptReplay(run[p].history_key, lines) = <<>> THEN Failed
                    ELSE [Done EXCEPT !.cmd = "replay", !.history_key = run[p].history_key,
                            !.out = DecryptReplay(run[p].history_key, lines),
                            !.seen = Len(lines),
                            !.lost = {i \in DOMAIN lines :
                                        Hidden(run[p].history_key, transcript[i], lines[i])}]]
        BY <1>9 DEF ReplayReturns
  <2>2. CASE DecryptReplay(run[p].history_key, lines) = <<>>
        BY <2>1, <2>2, FailedTrusts, ProcessStep
  <2>3. CASE DecryptReplay(run[p].history_key, lines) # <<>>
        BY <2>1, <2>3, ProcessStep DEF Done, Process0, Shaped, TrustsPeer
  <2> QED BY <2>2, <2>3
<1>10. ASSUME NEW p \in Process, Enrol(p) PROVE TrustInv'
       BY <1>10 DEF Enrol, TrustInv
<1>11. CASE AgentRestarts \/ Record \/ UNCHANGED vars
       BY <1>11 DEF AgentRestarts, Record, vars, TrustInv
<1> QED BY <1>1, <1>2, <1>3, <1>4, <1>5, <1>6, <1>7, <1>8, <1>9, <1>10, <1>11 DEF Next

(* Whatever the agents serve, whenever they restart, and whichever options *)
(* are given, a process that sends requests is connected to the agent      *)
(* whose key it verified (lib.rs:146-180, 347-437).                        *)
THEOREM RequestsGoToAttested == Spec => []RequestsReachAttested
<1>1. Init => TrustInv
      BY DEF Init, Process0, TrustInv, Shaped, TrustsPeer
<1>2. TrustInv => RequestsReachAttested
      BY DEF TrustInv, TrustsPeer, RequestsReachAttested
<1> QED BY <1>1, <1>2, TrustStep, PTL DEF Spec
-----------------------------------------------------------------------------
(***************************************************************************)
(* What a replay prints.                                                   *)
(***************************************************************************)
(* A record as the agent sealed it, whatever happens to its line later.    *)
SealedRecord ==
  [string : {TRUE}, v : {2}, rcpts : Seq([to : Int, part : {"whole"}]), body : {"whole"},
   record : [kind : {"pty", "meta"}, data : Nat, data_malformed : {FALSE}]]

IsRecipient(key, sealed) ==
  \E j \in 1 .. Len(sealed.rcpts) : sealed.rcpts[j].to = key

(* The i-th record was sealed when the key had been enrolled.              *)
SealedTo(key, i) ==
  \E e \in 1 .. Len(enrolled) : enrolled[e].key = key /\ enrolled[e].since < i

SealedAt(sealed, i) ==
  /\ sealed.record.data = i
  /\ \A key \in Nat : SealedTo(key, i) <=> IsRecipient(key, sealed)

TranscriptOK ==
  /\ transcript \in Seq(SealedRecord)
  /\ \A i \in 1 .. Len(transcript) : SealedAt(transcript[i], i)

EnrolledOK == enrolled \in Seq([key : used, since : 0 .. Len(transcript)])

(* What the device with this key should see of the first n records, if of  *)
(* those that are lost it can see nothing.                                 *)
Due(key, i) == transcript[i].record.kind = "pty" /\ SealedTo(key, i)

DueTo(key, n, lost) ==
  FlattenSeq([i \in 1 .. n |-> IF Due(key, i) /\ i \notin lost THEN <<i>> ELSE <<>>])

(* A replay asks for its records with a key that was returned to it; what  *)
(* it has printed is what that key opens.                                  *)
ReplayOK(r, place) ==
  /\ Shaped(r)
  /\ r.cmd \in DOMAIN Requests
  /\ r.history_key \in {None} \cup used
  /\ r.at \in {"dial", "call"} =>
       /\ Requests[r.cmd] # <<>>
       /\ r.cmd = "replay" => r.history_key # None
  /\ r.at = "call" => r.left \in {Requests[r.cmd], <<"shell.attach_session">>}
  /\ r.at = "done" /\ Requests[r.cmd] = <<>> => place = "have"
  /\ r.at # "done" => r.out = <<>>
  /\ r.out # <<>> => /\ r.history_key \in used
                     /\ r.seen \in 0 .. Len(transcript)
                     /\ r.out[1] = DueTo(r.history_key, r.seen, r.lost)

HaveUsed == \A p \in Process : pc[p] = "have" => secret[p] \in used

ReplayInv ==
  /\ DOMAIN run = Process
  /\ HaveUsed
  /\ TranscriptOK
  /\ EnrolledOK
  /\ \A p \in Process : ReplayOK(run[p], pc[p])

-----------------------------------------------------------------------------
Part == {"whole", "garbled", "malformed"}

(* A line, damaged or not, and the record it was sealed from.              *)
LEMMA LineShape ==
  ASSUME NEW sealed \in SealedRecord, NEW line \in {sealed} \cup Damaged(sealed)
  PROVE  /\ line.string \in BOOLEAN
         /\ DOMAIN line.rcpts = DOMAIN sealed.rcpts
         /\ \A i \in DOMAIN sealed.rcpts : /\ line.rcpts[i].to = sealed.rcpts[i].to
                                         /\ line.rcpts[i].part \in Part
         /\ line.record.kind = sealed.record.kind
         /\ line.record.data = sealed.record.data
<1>1. /\ sealed.rcpts \in Seq([to : Int, part : {"whole"}]) /\ sealed.string = TRUE
      /\ sealed.record \in [kind : {"pty", "meta"}, data : Nat, data_malformed : {FALSE}]
      BY DEF SealedRecord
<1>2. \A i \in DOMAIN sealed.rcpts : sealed.rcpts[i] \in [to : Int, part : {"whole"}]
  <2>1. \A S : \A s \in Seq(S) : \A i \in DOMAIN s : s[i] \in S
        OBVIOUS
  <2> QED BY <1>1, <2>1, Zenon
<1>3. ASSUME line.rcpts = sealed.rcpts
      PROVE  \A i \in DOMAIN sealed.rcpts : /\ line.rcpts[i].to = sealed.rcpts[i].to
                                           /\ line.rcpts[i].part \in Part
      BY <1>2, <1>3 DEF Part
<1>4. CASE line = sealed
      BY <1>1, <1>3, <1>4
<1>5. CASE line = [sealed EXCEPT !.string = FALSE]
  <2>1. line.rcpts = sealed.rcpts /\ line.record = sealed.record /\ line.string = FALSE
        BY <1>5 DEF SealedRecord
  <2> QED BY <1>3, <2>1
<1>6. CASE line = [sealed EXCEPT !.v = 1]
  <2>1. line.rcpts = sealed.rcpts /\ line.record = sealed.record /\ line.string = TRUE
        BY <1>6 DEF SealedRecord
  <2> QED BY <1>3, <2>1
<1>7. CASE line = [sealed EXCEPT !.record.data_malformed = TRUE]
  <2>1. /\ line.rcpts = sealed.rcpts /\ line.string = TRUE
        /\ line.record = [sealed.record EXCEPT !.data_malformed = TRUE]
        BY <1>7 DEF SealedRecord
  <2>2. line.record.kind = sealed.record.kind /\ line.record.data = sealed.record.data
        BY <1>1, <2>1
  <2> QED BY <1>3, <2>1, <2>2
<1>8. ASSUME NEW part, line = [sealed EXCEPT !.body = part]
      PROVE  line.rcpts = sealed.rcpts /\ line.record = sealed.record /\ line.string = TRUE
      BY <1>8 DEF SealedRecord
<1>9. ASSUME NEW i \in DOMAIN sealed.rcpts, NEW part \in {"garbled", "malformed"},
             line = [sealed EXCEPT !.rcpts[i].part = part]
      PROVE  /\ line.string = TRUE /\ line.record = sealed.record
             /\ DOMAIN line.rcpts = DOMAIN sealed.rcpts
             /\ \A j \in DOMAIN sealed.rcpts : /\ line.rcpts[j].to = sealed.rcpts[j].to
                                             /\ line.rcpts[j].part \in Part
  <2>1. /\ line.record = sealed.record /\ line.string = TRUE
        /\ line.rcpts = [sealed.rcpts EXCEPT ![i].part = part]
        BY <1>9 DEF SealedRecord
  <2>2. /\ DOMAIN line.rcpts = DOMAIN sealed.rcpts
        /\ line.rcpts[i] = [sealed.rcpts[i] EXCEPT !.part = part]
        /\ \A j \in DOMAIN sealed.rcpts : j # i => line.rcpts[j] = sealed.rcpts[j]
        BY <1>9, <2>1
  <2>3. line.rcpts[i].to = sealed.rcpts[i].to /\ line.rcpts[i].part = part
        BY <1>2, <2>2
  <2> QED BY <1>2, <1>9, <2>1, <2>2, <2>3 DEF Part
<1>10. \/ line = sealed \/ line = [sealed EXCEPT !.string = FALSE]
       \/ line = [sealed EXCEPT !.v = 1]
       \/ line = [sealed EXCEPT !.record.data_malformed = TRUE]
       \/ \E part \in {"garbled", "malformed"} : line = [sealed EXCEPT !.body = part]
       \/ \E i \in DOMAIN sealed.rcpts, part \in {"garbled", "malformed"} :
            line = [sealed EXCEPT !.rcpts[i].part = part]
  <2> DEFINE bodies == {[sealed EXCEPT !.body = part] : part \in {"garbled", "malformed"}}
             stanzas == {[sealed EXCEPT !.rcpts[i].part = part] :
                           i \in DOMAIN sealed.rcpts, part \in {"garbled", "malformed"}}
  <2>1. \/ line \in {sealed, [sealed EXCEPT !.string = FALSE], [sealed EXCEPT !.v = 1],
                    [sealed EXCEPT !.record.data_malformed = TRUE]}
        \/ line \in bodies \/ line \in stanzas
    <3> HIDE DEF bodies, stanzas
    <3> QED BY DEF Damaged, bodies, stanzas
  <2>2. line \in bodies =>
          \E part \in {"garbled", "malformed"} : line = [sealed EXCEPT !.body = part]
        OBVIOUS
  <2>3. line \in stanzas =>
          \E i \in DOMAIN sealed.rcpts, part \in {"garbled", "malformed"} :
            line = [sealed EXCEPT !.rcpts[i].part = part]
        OBVIOUS
  <2> HIDE DEF bodies, stanzas
  <2> QED BY <2>1, <2>2, <2>3
<1>11. CASE \E part \in {"garbled", "malformed"} : line = [sealed EXCEPT !.body = part]
       BY <1>3, <1>8, <1>11
<1>12. CASE \E i \in DOMAIN sealed.rcpts, part \in {"garbled", "malformed"} :
              line = [sealed EXCEPT !.rcpts[i].part = part]
       BY <1>9, <1>12
<1> QED BY <1>4, <1>5, <1>6, <1>7, <1>10, <1>11, <1>12

(* A line that can be read, damaged or not, gives what was sealed to the   *)
(* key, unless the damage hides it.                                        *)
LEMMA SealedReads ==
  ASSUME NEW key \in Nat, NEW sealed \in SealedRecord,
         NEW line \in {sealed} \cup Damaged(sealed), ~Unreadable(key, line)
  PROVE  Added(key, line) = IF /\ sealed.record.kind = "pty" /\ IsRecipient(key, sealed)
                               /\ ~Hidden(key, sealed, line)
                            THEN <<sealed.record.data>> ELSE <<>>
<1> DEFINE ours == {i \in DOMAIN line.rcpts : Opens(line.rcpts[i], key)}
           tried == {i \in DOMAIN line.rcpts : \A j \in ours : i <= j}
<1>1. /\ line.string \in BOOLEAN /\ DOMAIN line.rcpts = DOMAIN sealed.rcpts
      /\ \A i \in DOMAIN sealed.rcpts : /\ line.rcpts[i].to = sealed.rcpts[i].to
                                      /\ line.rcpts[i].part \in Part
      /\ line.record.kind = sealed.record.kind /\ line.record.data = sealed.record.data
      BY LineShape
<1>2. /\ DOMAIN sealed.rcpts = 1 .. Len(sealed.rcpts)
      /\ sealed.record.kind \in {"pty", "meta"}
  <2>1. /\ sealed.rcpts \in Seq([to : Int, part : {"whole"}])
        /\ sealed.record \in [kind : {"pty", "meta"}, data : Nat, data_malformed : {FALSE}]
        BY DEF SealedRecord
  <2>2. \A S : \A s \in Seq(S) : DOMAIN s = 1 .. Len(s)
        OBVIOUS
  <2> QED BY <2>1, <2>2
<1>3. line.record.kind \in TerminalKinds <=> sealed.record.kind = "pty"
      BY <1>1, <1>2 DEF TerminalKinds
<1>4. CASE ~line.string
  <2>1. Open(key, line).tag = "none"
        BY <1>4 DEF Open, NotForUs
  <2>2. ~IsOutput(key, line)
        BY <2>1 DEF IsOutput
  <2> QED BY <1>4, <2>2 DEF Added, Hidden
<1>5. CASE line.string
  <2>1. OpenRecord(key, line).tag # "err" /\ Open(key, line) = OpenRecord(key, line)
        BY <1>5 DEF Unreadable, Open
  <2>2. \A i \in tried : line.rcpts[i].part # "malformed"
        BY <2>1, Zenon DEF OpenRecord, Malformed
  <2>3. OpenRecord(key, line) = IF ours = {} THEN NotForUs ELSE Opened(line.record)
        BY <2>1, Zenon DEF OpenRecord, Malformed
  <2>4. ours # {} <=> IsRecipient(key, sealed) /\ ~Hidden(key, sealed, line)
    <3>1. ASSUME ours # {}
          PROVE  IsRecipient(key, sealed) /\ ~Hidden(key, sealed, line)
      <4>1. PICK i \in DOMAIN sealed.rcpts : Opens(line.rcpts[i], key)
            BY <1>1, <3>1
      <4>2. sealed.rcpts[i].to = key /\ line.rcpts[i].part = "whole"
            BY <1>1, <4>1 DEF Opens
      <4> QED BY <1>2, <1>5, <4>2 DEF IsRecipient, Hidden
    <3>2. ASSUME ours = {}, IsRecipient(key, sealed)
          PROVE  Hidden(key, sealed, line)
      <4>1. \A i \in DOMAIN sealed.rcpts : line.rcpts[i].part # "malformed"
            BY <1>1, <2>2, <3>2
      <4>2. \A i \in DOMAIN sealed.rcpts :
              sealed.rcpts[i].to = key => line.rcpts[i].part # "whole"
            BY <1>1, <3>2 DEF Opens
      <4> QED BY <1>1, <4>1, <4>2 DEF Hidden, Part
    <3> QED BY <3>1, <3>2
  <2> HIDE DEF ours
  <2>5. IsOutput(key, line) <=> ours # {} /\ line.record.kind \in TerminalKinds
    <3>1. CASE ours = {}
      <4>1. Open(key, line).tag = "none"
            BY <2>1, <2>3, <3>1 DEF NotForUs
      <4> QED BY <3>1, <4>1 DEF IsOutput
    <3>2. CASE ours # {}
      <4>1. Open(key, line).tag = "some" /\ Open(key, line).record = line.record
            BY <2>1, <2>3, <3>2 DEF Opened
      <4> QED BY <3>2, <4>1 DEF IsOutput
    <3> QED BY <3>1, <3>2
  <2> QED BY <1>1, <1>3, <2>4, <2>5, Zenon DEF Added
<1> QED BY <1>1, <1>4, <1>5

LEMMA Replaced ==
  ASSUME NEW S, NEW s \in Seq(S), NEW i \in 1 .. Len(s), NEW v
  PROVE  LET t == [s EXCEPT ![i] = v]
         IN /\ Len(t) = Len(s) /\ DOMAIN t = 1 .. Len(s)
            /\ t[i] = v /\ \A j \in 1 .. Len(s) : j # i => t[j] = s[j]
<1> DEFINE t == [s EXCEPT ![i] = v]
<1>1. /\ DOMAIN s = 1 .. Len(s) /\ Len(s) \in Nat
      OBVIOUS
<1>2. /\ DOMAIN t = 1 .. Len(s)
      /\ t[i] = v /\ \A j \in 1 .. Len(s) : j # i => t[j] = s[j]
      BY <1>1
<1>3. t \in Seq(S \cup {v})
  <2>1. t \in [1 .. Len(s) -> S \cup {v}]
        OBVIOUS
  <2> QED BY <1>1, <2>1
<1>4. Len(t) = Len(s)
      BY <1>1, <1>2, <1>3
<1> QED BY <1>2, <1>4

(* Read at once, the lines of a transcript give what is due to the key and *)
(* not lost.                                                               *)
LEMMA ReplayReads ==
  ASSUME TranscriptOK, NEW key \in Nat, NEW lines \in Lines,
         DecryptReplay(key, lines) # <<>>
  PROVE  /\ Len(lines) = Len(transcript)
         /\ DecryptReplay(key, lines) =
              <<DueTo(key, Len(transcript),
                      {i \in DOMAIN lines : Hidden(key, transcript[i], lines[i])})>>
<1> DEFINE n == Len(transcript)
           lost == {i \in DOMAIN lines : Hidden(key, transcript[i], lines[i])}
<1>1. /\ transcript \in Seq(SealedRecord) /\ DOMAIN transcript = 1 .. n
      /\ \A i \in 1 .. n : transcript[i] \in SealedRecord /\ SealedAt(transcript[i], i)
      BY DEF TranscriptOK
<1>2. /\ Len(lines) = n /\ DOMAIN lines = 1 .. n
      /\ \A i \in 1 .. n : lines[i] \in {transcript[i]} \cup Damaged(transcript[i])
  <2>1. CASE lines = transcript
        BY <1>1, <2>1
  <2>2. CASE lines # transcript
    <3>1. PICK i \in 1 .. n : \E line \in Damaged(transcript[i]) :
            lines = [transcript EXCEPT ![i] = line]
          BY <1>1, <2>2 DEF Lines
    <3>2. PICK line \in Damaged(transcript[i]) : lines = [transcript EXCEPT ![i] = line]
          BY <3>1
    <3> QED BY <1>1, <3>2, Replaced
  <2> QED BY <2>1, <2>2
<1>3. \A i \in 1 .. n : ~Unreadable(key, lines[i])
      BY <1>2, Zenon DEF DecryptReplay
<1>4. DecryptReplay(key, lines) = <<FlattenSeq([i \in 1 .. n |-> Added(key, lines[i])])>>
      BY <1>2, <1>3, Zenon DEF DecryptReplay
<1>5. ASSUME NEW i \in 1 .. n
      PROVE  Added(key, lines[i]) = IF Due(key, i) /\ i \notin lost THEN <<i>> ELSE <<>>
  <2>1. /\ transcript[i].record.data = i
        /\ SealedTo(key, i) <=> IsRecipient(key, transcript[i])
        BY <1>1 DEF SealedAt
  <2>2. Added(key, lines[i]) =
          IF /\ transcript[i].record.kind = "pty" /\ IsRecipient(key, transcript[i])
             /\ ~Hidden(key, transcript[i], lines[i])
          THEN <<transcript[i].record.data>> ELSE <<>>
        BY <1>1, <1>2, <1>3, SealedReads
  <2>3. i \in lost <=> Hidden(key, transcript[i], lines[i])
        BY <1>2
  <2> QED BY <2>1, <2>2, <2>3, Zenon DEF Due
<1> HIDE DEF lost
<1>6. [i \in 1 .. n |-> Added(key, lines[i])]
      = [i \in 1 .. n |-> IF Due(key, i) /\ i \notin lost THEN <<i>> ELSE <<>>]
      BY <1>5, Zenon
<1>7. DecryptReplay(key, lines) = <<DueTo(key, n, lost)>>
      BY <1>4, <1>6, Zenon DEF DueTo
<1> QED BY <1>2, <1>7 DEF lost

(* A record, once sealed, and who it was sealed to, never change.          *)
LEMMA DueStands ==
  ASSUME NEW key, NEW n, NEW lost,
         \A i \in 1 .. n : transcript'[i] = transcript[i] /\ (SealedTo(key, i)' <=> SealedTo(key, i))
  PROVE  DueTo(key, n, lost)' = DueTo(key, n, lost)
<1>1. \A i \in 1 .. n : Due(key, i)' <=> Due(key, i)
      BY DEF Due
<1>2. [i \in 1 .. n |-> IF Due(key, i)' /\ i \notin lost THEN <<i>> ELSE <<>>]
      = [i \in 1 .. n |-> IF Due(key, i) /\ i \notin lost THEN <<i>> ELSE <<>>]
      BY <1>1, Zenon
<1> QED BY <1>2, Zenon DEF DueTo

-----------------------------------------------------------------------------
(* A key that was returned to a caller stays so, and a process that has    *)
(* its key has one that was returned.                                      *)
LEMMA UsedGrows == [DeviceNext]_device => used \subseteq used'
BY DEF DeviceNext, LoadStep, Load, OpenKey, ReadKey, NotFound, CreateTmp, WriteTmp,
       SetPermissions, Rename, Dies, Return, Fail, device

LEMMA HaveStep ==
  ASSUME DeviceTypeOK, HaveUsed, [DeviceNext]_device PROVE HaveUsed'
<1>0. pc \in [Process -> Pc] /\ secret \in [Process -> Nat] /\ used \subseteq used'
      BY UsedGrows DEF DeviceTypeOK
<1>1. ASSUME NEW p \in Process, NEW place, place # "have", Goto(p, place),
             \A q \in Process : q # p => secret'[q] = secret[q]
      PROVE  HaveUsed'
      BY <1>0, <1>1 DEF HaveUsed, Goto
<1>2. ASSUME NEW p \in Process, NEW key, Return(p, key) PROVE HaveUsed'
      BY <1>0, <1>2 DEF HaveUsed, Return, Goto
<1>3. ASSUME NEW p \in Process, Fail(p) PROVE HaveUsed'
      BY <1>0, <1>1, <1>3 DEF Fail
<1>4. ASSUME NEW p \in Process, Load(p) PROVE HaveUsed'
      BY <1>0, <1>1, <1>4 DEF Load
<1>5. ASSUME NEW p \in Process, OpenKey(p) \/ CreateTmp(p) \/ WriteTmp(p) PROVE HaveUsed'
  <2>1. UNCHANGED secret /\ \E place \in {"read", "write", "permit"} : Goto(p, place)
        BY <1>5 DEF OpenKey, CreateTmp, WriteTmp
  <2> QED BY <1>1, <2>1
<1>6. ASSUME NEW p \in Process, NotFound(p) PROVE HaveUsed'
      BY <1>0, <1>1, <1>6 DEF NotFound
<1>7. ASSUME NEW p \in Process, ReadKey(p) \/ Rename(p) \/ Dies(p) PROVE HaveUsed'
      BY <1>2, <1>3, <1>7 DEF ReadKey, Rename, Dies
<1>8. ASSUME NEW p \in Process, SetPermissions(p) PROVE HaveUsed'
  <2>1. CASE tmp # None
        BY <1>1, <1>8, <2>1 DEF SetPermissions
  <2>2. CASE tmp = None
        BY <1>3, <1>8, <2>2 DEF SetPermissions
  <2> QED BY <2>1, <2>2
<1>9. CASE UNCHANGED device
      BY <1>9 DEF device, HaveUsed
<1> QED BY <1>4, <1>5, <1>6, <1>7, <1>8, <1>9 DEF DeviceNext, LoadStep

(* The other processes do not load meanwhile.                              *)
LEMMA OthersStay ==
  ASSUME NEW p \in Process, Load(p) \/ LoadStep(p), pc \in [Process -> Pc]
  PROVE  \A q \in Process : q # p => pc'[q] = pc[q]
<1>1. \E place : Goto(p, place)
      BY DEF Load, LoadStep, OpenKey, ReadKey, NotFound, CreateTmp, WriteTmp,
             SetPermissions, Rename, Dies, Return, Fail
<1> QED BY <1>1 DEF Goto
-----------------------------------------------------------------------------
(* What holds of a process that does not move holds while others move, the *)
(* transcript grows and keys are enrolled.                                 *)
LEMMA ReplayStays ==
  ASSUME NEW r, NEW place, ReplayOK(r, place),
         used \subseteq used', Len(transcript) \in Nat, Len(transcript') \in Nat,
         Len(transcript) <= Len(transcript'),
         \A key : \A i \in 1 .. Len(transcript) :
           transcript'[i] = transcript[i] /\ (SealedTo(key, i)' <=> SealedTo(key, i))
  PROVE  ReplayOK(r, place)'
<1>1. ASSUME r.out # <<>>
      PROVE  DueTo(r.history_key, r.seen, r.lost)' = DueTo(r.history_key, r.seen, r.lost)
  <2>1. r.seen \in 0 .. Len(transcript)
        BY <1>1 DEF ReplayOK
  <2>2. \A i \in 1 .. r.seen : i \in 1 .. Len(transcript)
        BY <2>1
  <2> QED BY <2>2, DueStands
<1>2. r.out # <<>> => /\ r.history_key \in used'
                      /\ r.seen \in 0 .. Len(transcript')
                      /\ r.out[1] = DueTo(r.history_key, r.seen, r.lost)'
      BY <1>1 DEF ReplayOK
<1>3. r.history_key \in {None} \cup used'
      BY DEF ReplayOK
<1> QED BY <1>2, <1>3, Zenon DEF ReplayOK

LEMMA ProcessReplays ==
  ASSUME ReplayInv, DeviceTypeOK, [DeviceNext]_device, UNCHANGED <<enrolled, transcript>>,
         DOMAIN run' = Process,
         \A q \in Process : ReplayOK(run'[q], pc'[q])
  PROVE  ReplayInv'
<1>1. used \subseteq used' /\ HaveUsed'
      BY UsedGrows, HaveStep DEF ReplayInv
<1>2. TranscriptOK'
      BY ZenonT(40) DEF ReplayInv, TranscriptOK, SealedAt, SealedTo
<1>3. EnrolledOK'
  <2>1. [key : used, since : 0 .. Len(transcript)]
        \subseteq [key : used', since : 0 .. Len(transcript)]
        BY <1>1
  <2>2. enrolled' \in Seq([key : used', since : 0 .. Len(transcript)])
        BY <2>1, SeqMonotonic DEF ReplayInv, EnrolledOK
  <2> QED BY <2>2 DEF EnrolledOK
<1>4. ASSUME NEW q \in Process PROVE ReplayOK(run[q], pc[q])'
  <2>1. PICK s, place : s = run'[q] /\ place = pc'[q] /\ ReplayOK(s, place)
        OBVIOUS
  <2>2. ReplayOK(s, place)'
        BY <1>1, <2>1, ReplayStays DEF ReplayInv, TranscriptOK, SealedTo
  <2> QED BY <2>1, <2>2
<1> QED BY <1>1, <1>2, <1>3, <1>4 DEF ReplayInv
(* A process moves while nothing is recorded or enrolled.                  *)
LEMMA MoveReplays ==
  ASSUME ReplayInv, DeviceTypeOK, [DeviceNext]_device, UNCHANGED remote,
         NEW p \in Process, NEW r, run' = [run EXCEPT ![p] = r],
         \A q \in Process : q # p => pc'[q] = pc[q],
         ReplayOK(r, pc'[p])
  PROVE  ReplayInv'
<1>1. /\ DOMAIN run' = Process
      /\ \A q \in Process : ReplayOK(run'[q], pc'[q])
      BY DEF ReplayInv
<1> QED BY <1>1, ProcessReplays DEF remote

(* The commands: which ask for a replay, and what is left of them.         *)
LEMMA Commands ==
  ASSUME NEW cmd \in DOMAIN Requests, NEW left \in {Requests[cmd], <<"shell.attach_session">>}
  PROVE  /\ left # <<>> /\ Head(left) = "shell.replay_session" => cmd = "replay"
         /\ Len(left) > 1 => Tail(left) = <<"shell.attach_session">>
<1>1. \/ left = <<>>
      \/ \E q : left = <<q>> /\ (q = "shell.replay_session" => cmd = "replay")
      \/ left = <<"shell.create_session", "shell.attach_session">>
      BY DEF Requests
<1>2. CASE left = <<>>
      BY <1>2
<1>3. ASSUME NEW q, left = <<q>>, q = "shell.replay_session" => cmd = "replay"
      PROVE  Head(left) = "shell.replay_session" => cmd = "replay"
      BY <1>3
<1>4. ASSUME NEW q, left = <<q>>
      PROVE  ~(Len(left) > 1)
      BY <1>4
<1>5. ASSUME left = <<"shell.create_session", "shell.attach_session">>
      PROVE  Head(left) # "shell.replay_session" /\ Tail(left) = <<"shell.attach_session">>
      BY <1>5
<1> QED BY <1>1, <1>2, <1>3, <1>4, <1>5

LEMMA FailedReplays ==
  ASSUME NEW place PROVE ReplayOK(Failed, place)
BY DEF Failed, Process0, ReplayOK, Shaped, Requests

LEMMA DoneReplays ==
  ASSUME NEW cmd \in DOMAIN Requests, Requests[cmd] # <<>>, NEW place
  PROVE  ReplayOK([Done EXCEPT !.cmd = cmd], place)
BY DEF Done, Process0, ReplayOK, Shaped
(* Records and enrolments leave alone what was due before.                 *)
LEMMA RemoteReplays ==
  ASSUME ReplayInv, UNCHANGED <<device, run>>, TranscriptOK', EnrolledOK',
         Len(transcript) <= Len(transcript'),
         \A key : \A i \in 1 .. Len(transcript) :
           transcript'[i] = transcript[i] /\ (SealedTo(key, i)' <=> SealedTo(key, i))
  PROVE  ReplayInv'
<1>1. pc' = pc /\ secret' = secret /\ used' = used /\ run' = run
      BY DEF device
<1>2. Len(transcript) \in Nat /\ Len(transcript') \in Nat
      BY DEF ReplayInv, TranscriptOK
<1>3. HaveUsed' /\ DOMAIN run' = Process
      BY <1>1 DEF ReplayInv, HaveUsed
<1>4. ASSUME NEW q \in Process PROVE ReplayOK(run[q], pc[q])'
  <2>1. PICK s, place : s = run[q] /\ place = pc[q] /\ ReplayOK(s, place)
        BY DEF ReplayInv
  <2>2. ReplayOK(s, place)'
        BY <1>1, <1>2, <2>1, ReplayStays
  <2> QED BY <1>1, <2>1, <2>2
<1> QED BY <1>3, <1>4 DEF ReplayInv

LEMMA EnrolReplays ==
  ASSUME ReplayInv, NEW p \in Process, Enrol(p) PROVE ReplayInv'
<1> DEFINE device_key == [key |-> secret[p], since |-> Len(transcript)]
<1>1. /\ UNCHANGED <<device, run, transcript>>
      /\ enrolled' = Append(enrolled, device_key)
      BY DEF Enrol
<1>2. secret[p] \in used /\ used' = used
  <2>1. run[p].at = "done" /\ Requests[run[p].cmd] = <<>>
        BY DEF Enrol, Connects
  <2>2. pc[p] = "have"
        BY <2>1 DEF ReplayInv, ReplayOK
  <2> QED BY <1>1, <2>2 DEF ReplayInv, HaveUsed, device
<1>3. /\ enrolled \in Seq([key : used, since : 0 .. Len(transcript)])
      /\ transcript \in Seq(SealedRecord) /\ Len(transcript) \in Nat
      BY DEF ReplayInv, EnrolledOK, TranscriptOK
<1>4. device_key \in [key : used, since : 0 .. Len(transcript)]
      BY <1>2, <1>3
<1>5. /\ Len(enrolled') = Len(enrolled) + 1 /\ Len(enrolled) \in Nat
      /\ \A e \in 1 .. Len(enrolled) : enrolled'[e] = enrolled[e]
      /\ enrolled'[Len(enrolled) + 1] = device_key
      /\ enrolled' \in Seq([key : used, since : 0 .. Len(transcript)])
  <2> HIDE DEF device_key
  <2> QED BY <1>1, <1>3, <1>4
<1>6. \A i \in 1 .. Len(transcript) : ~(device_key.since < i)
      BY <1>3
<1>7. \A key : \A i \in 1 .. Len(transcript) : SealedTo(key, i)' <=> SealedTo(key, i)
  <2> HIDE DEF device_key
  <2> QED BY <1>5, <1>6 DEF SealedTo
<1>8. TranscriptOK'
      BY <1>1, <1>7 DEF ReplayInv, TranscriptOK, SealedAt
<1>9. EnrolledOK'
      BY <1>1, <1>2, <1>5 DEF EnrolledOK
<1> QED BY <1>1, <1>3, <1>7, <1>8, <1>9, RemoteReplays

LEMMA EnrolledKeys ==
  ASSUME ReplayInv
  PROVE  /\ Len(enrolled) \in Nat /\ DOMAIN enrolled = 1 .. Len(enrolled)
         /\ \A e \in 1 .. Len(enrolled) : /\ enrolled[e].key \in used
                                        /\ enrolled[e].since \in 0 .. Len(transcript)
<1>1. enrolled \in Seq([key : used, since : 0 .. Len(transcript)])
      BY DEF ReplayInv, EnrolledOK
<1>2. \A S : \A s \in Seq(S) : /\ Len(s) \in Nat /\ DOMAIN s = 1 .. Len(s)
                             /\ \A i \in 1 .. Len(s) : s[i] \in S
      OBVIOUS
<1>3. /\ Len(enrolled) \in Nat /\ DOMAIN enrolled = 1 .. Len(enrolled)
      /\ \A e \in 1 .. Len(enrolled) :
           enrolled[e] \in [key : used, since : 0 .. Len(transcript)]
      BY <1>1, <1>2, Zenon
<1> QED BY <1>3

(* A record is sealed to the keys enrolled so far.                         *)
LEMMA SealedIsTo ==
  ASSUME ReplayInv, used \subseteq Nat, NEW kind \in {"pty", "meta"}
  PROVE  Sealed(kind) \in SealedRecord /\ SealedAt(Sealed(kind), Len(transcript) + 1)
<1> DEFINE stanzas == [i \in DOMAIN enrolled |-> Stanza(enrolled[i].key)]
           rcpts == <<Stanza(OtherDevice)>> \o stanzas
           n == Len(enrolled)
<1>1. /\ n \in Nat /\ DOMAIN enrolled = 1 .. n /\ Len(transcript) \in Nat
      /\ \A e \in 1 .. n : /\ enrolled[e].key \in Nat
                           /\ enrolled[e].since \in 0 .. Len(transcript)
  <2>1. Len(transcript) \in Nat
        BY DEF ReplayInv, TranscriptOK
  <2> QED BY <2>1, EnrolledKeys
<1>2. /\ stanzas \in Seq([to : Int, part : {"whole"}]) /\ Len(stanzas) = n
      /\ \A e \in 1 .. n : stanzas[e].to = enrolled[e].key
  <2>1. stanzas \in [1 .. n -> [to : Int, part : {"whole"}]]
        BY <1>1 DEF Stanza
  <2>2. \A e \in 1 .. n : stanzas[e].to = enrolled[e].key
        BY <1>1 DEF Stanza
  <2>3. \A X : \A f \in [1 .. n -> X] : f \in Seq(X) /\ Len(f) = n
        BY <1>1
  <2> HIDE DEF stanzas
  <2> QED BY <2>1, <2>2, <2>3, Zenon
<1> HIDE DEF stanzas
<1>3. Stanza(OtherDevice) \in [to : Int, part : {"whole"}] /\ Stanza(OtherDevice).to = OtherDevice
      BY DEF Stanza, OtherDevice
<1>4. /\ rcpts \in Seq([to : Int, part : {"whole"}]) /\ Len(rcpts) = n + 1
      /\ rcpts[1].to = OtherDevice
      /\ \A e \in 1 .. n : rcpts[e + 1].to = enrolled[e].key
      BY <1>1, <1>2, <1>3
<1> HIDE DEF rcpts
<1>5. /\ Sealed(kind).v = 2 /\ Sealed(kind).rcpts = rcpts /\ Sealed(kind).record.data = Len(transcript) + 1
      BY DEF Sealed, stanzas, rcpts
<1>6. Sealed(kind) \in SealedRecord
      BY <1>1, <1>4 DEF Sealed, SealedRecord, stanzas, rcpts
<1>7. ASSUME NEW key \in Nat
      PROVE  SealedTo(key, Len(transcript) + 1) <=> IsRecipient(key, Sealed(kind))
  <2>1. SealedTo(key, Len(transcript) + 1) <=> \E e \in 1 .. n : enrolled[e].key = key
        BY <1>1 DEF SealedTo
  <2>2. ASSUME NEW j \in 1 .. n + 1, rcpts[j].to = key
        PROVE  \E e \in 1 .. n : enrolled[e].key = key
    <3>1. j # 1
          BY <1>4, <2>2 DEF OtherDevice
    <3>2. j - 1 \in 1 .. n /\ rcpts[(j - 1) + 1].to = key
          BY <1>1, <2>2, <3>1
    <3> QED BY <1>4, <3>2
  <2>3. ASSUME NEW e \in 1 .. n, enrolled[e].key = key
        PROVE  \E j \in 1 .. n + 1 : rcpts[j].to = key
        BY <1>1, <1>4, <2>3, SMTT(30)
  <2> QED BY <1>4, <1>5, <2>1, <2>2, <2>3 DEF IsRecipient
<1> QED BY <1>1, <1>4, <1>5, <1>6, <1>7 DEF SealedAt

LEMMA RecordReplays ==
  ASSUME ReplayInv, used \subseteq Nat, Record PROVE ReplayInv'
<1>1. PICK kind \in {"pty", "meta"} : transcript' = Append(transcript, Sealed(kind))
      BY DEF Record
<1>2. UNCHANGED <<device, run, enrolled>> /\ used' = used
      BY DEF Record, device
<1>3. /\ transcript \in Seq(SealedRecord) /\ Len(transcript) \in Nat
      /\ Sealed(kind) \in SealedRecord /\ SealedAt(Sealed(kind), Len(transcript) + 1)
      BY SealedIsTo DEF ReplayInv, TranscriptOK
<1>4. /\ Len(transcript') = Len(transcript) + 1 /\ transcript' \in Seq(SealedRecord)
      /\ \A i \in 1 .. Len(transcript) : transcript'[i] = transcript[i]
      /\ transcript'[Len(transcript) + 1] = Sealed(kind)
      BY <1>1, <1>3
<1>5. \A key, i : SealedTo(key, i)' <=> SealedTo(key, i)
      BY <1>2 DEF SealedTo
<1>6. \A s, i : SealedAt(s, i)' <=> SealedAt(s, i)
      BY <1>5 DEF SealedAt
<1>7. \A i \in 1 .. Len(transcript') : SealedAt(transcript'[i], i)
      BY <1>3, <1>4 DEF ReplayInv, TranscriptOK
<1>8. TranscriptOK'
  <2>1. ASSUME NEW i \in 1 .. Len(transcript') PROVE SealedAt(transcript[i], i)'
    <3>1. PICK s : s = transcript'[i] /\ SealedAt(s, i)
          BY <1>7
    <3> QED BY <1>6, <3>1
  <2> QED BY <1>4, <2>1 DEF TranscriptOK
<1>9. EnrolledOK'
  <2>1. enrolled \in Seq([key : used, since : 0 .. Len(transcript)])
        BY DEF ReplayInv, EnrolledOK
  <2>2. [key : used, since : 0 .. Len(transcript)]
        \subseteq [key : used, since : 0 .. Len(transcript')]
        BY <1>3, <1>4
  <2>3. enrolled \in Seq([key : used, since : 0 .. Len(transcript')])
        BY <2>1, <2>2, SeqMonotonic
  <2> QED BY <1>2, <2>3 DEF EnrolledOK
<1> QED BY <1>2, <1>3, <1>4, <1>5, <1>8, <1>9, RemoteReplays

LEMMA ReplayStep == ReplayInv /\ DeviceTypeOK /\ [Next]_vars => ReplayInv'
<1> SUFFICES ASSUME ReplayInv, DeviceTypeOK, [Next]_vars PROVE ReplayInv'
    OBVIOUS
<1>0. /\ [DeviceNext]_device /\ pc \in [Process -> Pc] /\ used \subseteq Nat
      /\ \A p \in Process : ReplayOK(run[p], pc[p])
      BY ClientIsDevice DEF DeviceTypeOK, ReplayInv
<1>a. ASSUME NEW p \in Process, NEW r, run' = [run EXCEPT ![p] = r], UNCHANGED <<device, remote>>,
             ReplayOK(r, pc[p])
      PROVE  ReplayInv'
  <2>1. pc' = pc
        BY <1>a DEF device
  <2> QED BY <1>0, <1>a, <2>1, MoveReplays
<1>1. ASSUME NEW p \in Process, Start(p) PROVE ReplayInv'
  <2>1. PICK c \in Command :
          run' = [run EXCEPT ![p] = [Process0 EXCEPT !.cmd = c, !.at = "key"]]
        BY <1>1 DEF Start
  <2>2. ReplayOK([Process0 EXCEPT !.cmd = c, !.at = "key"], pc'[p])
        BY CommandAssumption DEF Process0, ReplayOK, Shaped
  <2>3. Load(p) /\ UNCHANGED remote
        BY <1>1 DEF Start
  <2> QED BY <1>0, <2>1, <2>2, <2>3, OthersStay, MoveReplays
<1>2. ASSUME NEW p \in Process, LoadingKey(p) PROVE ReplayInv'
  <2>1. /\ LoadStep(p) /\ UNCHANGED remote /\ run[p].at = "key"
        /\ run' = IF pc'[p] = "failed" THEN [run EXCEPT ![p] = Failed] ELSE run
        BY <1>2 DEF LoadingKey
  <2>2. \A q \in Process : q # p => pc'[q] = pc[q]
        BY <1>0, <2>1, OthersStay
  <2>3. CASE pc'[p] = "failed"
        BY <1>0, <2>1, <2>2, <2>3, FailedReplays, MoveReplays
  <2>4. CASE pc'[p] # "failed"
    <3>1. ReplayOK(run[p], pc'[p])
          BY <1>0, <2>1 DEF ReplayOK
    <3>2. DOMAIN run' = Process /\ \A q \in Process : ReplayOK(run'[q], pc'[q])
          BY <1>0, <2>1, <2>2, <2>4, <3>1 DEF ReplayInv
    <3> QED BY <1>0, <2>1, <3>2, ProcessReplays DEF remote
  <2> QED BY <2>3, <2>4
<1>3. ASSUME NEW p \in Process, PrintKey(p) PROVE ReplayInv'
  <2>1. /\ run' = [run EXCEPT ![p] = [run[p] EXCEPT !.at = "done"]]
        /\ UNCHANGED <<device, remote>> /\ run[p].at = "key" /\ pc[p] = "have"
        BY <1>3 DEF PrintKey, HasKey
  <2>2. ReplayOK([run[p] EXCEPT !.at = "done"], pc[p])
        BY <1>0, <2>1 DEF ReplayOK, Shaped, Process0
  <2> QED BY <1>a, <2>1, <2>2
<1>4. ASSUME NEW p \in Process, LoadHistoryKey(p) PROVE ReplayInv'
  <2>1. /\ run' = [run EXCEPT ![p] = [run[p] EXCEPT !.history_key = secret[p]]]
        /\ Load(p) /\ UNCHANGED remote /\ run[p].at = "key" /\ pc[p] = "have"
        BY <1>4 DEF LoadHistoryKey, HasKey
  <2>2. secret[p] \in used
        BY <2>1 DEF ReplayInv, HaveUsed
  <2>3. ReplayOK([run[p] EXCEPT !.history_key = secret[p]], pc'[p])
        BY <1>0, <2>1, <2>2 DEF ReplayOK, Shaped, Process0
  <2> QED BY <1>0, <2>1, <2>3, OthersStay, MoveReplays
<1>5. ASSUME NEW p \in Process, FetchServerKey(p) PROVE ReplayInv'
  <2>1. /\ run[p].at = "key" /\ Requests[run[p].cmd] # <<>>
        /\ run[p].cmd = "replay" => run[p].history_key # None
        /\ UNCHANGED <<device, remote>>
        BY <1>5 DEF FetchServerKey, HasKey, Connects, NeedsHistoryKey
  <2>2. \E key, trusted :
          run' = [run EXCEPT ![p] = [run[p] EXCEPT !.at = "dial", !.server = key,
                                                   !.trusted = trusted]]
          \/ run' = [run EXCEPT ![p] = Failed]
        BY <1>5, Zenon DEF FetchServerKey
  <2>3. ASSUME NEW key, NEW trusted
        PROVE  ReplayOK([run[p] EXCEPT !.at = "dial", !.server = key, !.trusted = trusted], pc[p])
        BY <1>0, <2>1 DEF ReplayOK, Shaped, Process0
  <2> QED BY <1>a, <2>1, <2>2, <2>3, FailedReplays
<1>6. ASSUME NEW p \in Process, Handshake(p) PROVE ReplayInv'
  <2>1. run[p].at = "dial" /\ UNCHANGED <<device, remote>>
        BY <1>6 DEF Handshake
  <2>2. CASE run[p].server = agent
    <3>1. run' = [run EXCEPT ![p] = [run[p] EXCEPT !.at = "call", !.peer = agent,
                                                   !.left = Requests[run[p].cmd]]]
          BY <1>6, <2>2 DEF Handshake
    <3>2. ReplayOK([run[p] EXCEPT !.at = "call", !.peer = agent,
                                  !.left = Requests[run[p].cmd]], pc[p])
          BY <1>0, <2>1 DEF ReplayOK, Shaped, Process0
    <3> QED BY <1>a, <2>1, <3>1, <3>2
  <2>3. CASE run[p].server # agent
        BY <1>6, <1>a, <2>1, <2>3, FailedReplays DEF Handshake
  <2> QED BY <2>2, <2>3
<1>7. ASSUME NEW p \in Process, ConnectionFails(p) \/ CallFails(p) PROVE ReplayInv'
  <2>1. run' = [run EXCEPT ![p] = Failed] /\ UNCHANGED <<device, remote>>
        BY <1>7 DEF ConnectionFails, CallFails
  <2> QED BY <1>a, <2>1, FailedReplays
<1>8. ASSUME NEW p \in Process, CallReturns(p) PROVE ReplayInv'
  <2>1. /\ run[p].at = "call" /\ UNCHANGED <<device, remote>>
        /\ run[p].cmd \in DOMAIN Requests /\ Requests[run[p].cmd] # <<>>
        /\ run[p].left \in {Requests[run[p].cmd], <<"shell.attach_session">>}
        BY <1>0, <1>8 DEF CallReturns, MayCall, ReplayOK
  <2>2. CASE Len(run[p].left) > 1
    <3>1. run' = [run EXCEPT ![p] = [run[p] EXCEPT !.left = Tail(run[p].left)]]
          BY <1>8, <2>2 DEF CallReturns
    <3>2. Tail(run[p].left) = <<"shell.attach_session">>
          BY <2>1, <2>2, Commands
    <3>3. ReplayOK([run[p] EXCEPT !.left = <<"shell.attach_session">>], pc[p])
          BY <1>0, <2>1 DEF ReplayOK, Shaped, Process0
    <3> QED BY <1>a, <2>1, <3>1, <3>2, <3>3
  <2>3. CASE ~(Len(run[p].left) > 1)
    <3>1. run' = [run EXCEPT ![p] = [Done EXCEPT !.cmd = run[p].cmd]]
          BY <1>8, <2>3 DEF CallReturns
    <3> QED BY <1>a, <2>1, <3>1, DoneReplays
  <2> QED BY <2>2, <2>3
<1>9. ASSUME NEW p \in Process, ReplayReturns(p) PROVE ReplayInv'
  <2> DEFINE key == run[p].history_key
  <2>1. /\ run[p].at = "call" /\ UNCHANGED <<device, remote>>
        /\ Head(run[p].left) = "shell.replay_session"
        /\ run[p].cmd \in DOMAIN Requests /\ Requests[run[p].cmd] # <<>>
        /\ run[p].left \in {Requests[run[p].cmd], <<"shell.attach_session">>}
        BY <1>0, <1>9 DEF ReplayReturns, MayCall, Request, ReplayOK
  <2>2. run[p].cmd = "replay" /\ key \in used
    <3>1. run[p].cmd = "replay"
          BY <2>1, Commands
    <3> QED BY <1>0, <2>1, <3>1 DEF ReplayOK
  <2>3. PICK lines \in Lines :
          run' = [run EXCEPT ![p] =
                    IF DecryptReplay(key, lines) = <<>> THEN Failed
                    ELSE [Done EXCEPT !.cmd = "replay", !.history_key = key,
                            !.out = DecryptReplay(key, lines), !.seen = Len(lines),
                            !.lost = {i \in DOMAIN lines :
                                        Hidden(key, transcript[i], lines[i])}]]
        BY <1>9 DEF ReplayReturns
  <2>4. CASE DecryptReplay(key, lines) = <<>>
        BY <1>a, <2>1, <2>3, <2>4, FailedReplays
  <2>5. CASE DecryptReplay(key, lines) # <<>>
    <3> DEFINE lost == {i \in DOMAIN lines : Hidden(key, transcript[i], lines[i])}
               out == <<DueTo(key, Len(transcript), lost)>>
               r == [Done EXCEPT !.cmd = "replay", !.history_key = key, !.out = out,
                                 !.seen = Len(transcript), !.lost = lost]
    <3>1. Len(lines) = Len(transcript) /\ DecryptReplay(key, lines) = out
          BY <1>0, <2>2, <2>5, ReplayReads DEF ReplayInv
    <3>2. run' = [run EXCEPT ![p] = r]
          BY <2>3, <2>5, <3>1
    <3>3. Len(transcript) \in 0 .. Len(transcript) /\ Requests["replay"] # <<>>
          /\ "replay" \in DOMAIN Requests
          BY DEF ReplayInv, TranscriptOK, Requests
    <3> HIDE DEF lost
    <3>4. ReplayOK(r, pc[p])
          BY <2>2, <3>3 DEF ReplayOK, Shaped, Done, Process0
    <3> HIDE DEF r
    <3> QED BY <1>a, <2>1, <3>2, <3>4
  <2> QED BY <2>4, <2>5
<1>10. ASSUME NEW p \in Process, Enrol(p) PROVE ReplayInv'
       BY <1>10, EnrolReplays
<1>11. CASE Record
       BY <1>0, <1>11, RecordReplays
<1>12. CASE AgentRestarts \/ UNCHANGED vars
  <2>1. UNCHANGED <<device, run, enrolled, transcript>>
        BY <1>12 DEF AgentRestarts, vars, remote
  <2>2. \A q \in Process : ReplayOK(run'[q], pc'[q])
        BY <1>0, <2>1 DEF device
  <2> QED BY <1>0, <2>1, <2>2, ProcessReplays DEF ReplayInv
<1> QED BY <1>1, <1>2, <1>3, <1>4, <1>5, <1>6, <1>7, <1>8, <1>9, <1>10, <1>11, <1>12 DEF Next

(* A replay's key is the device's: while first runs have not overlapped,   *)
(* no other was ever returned, so no other was enrolled.                   *)
LEMMA ReplaysAreExact == ReplayInv /\ OneDeviceKey => ReplayExact
<1> SUFFICES ASSUME ReplayInv, OneDeviceKey, NEW p \in Process, run[p].out # <<>>
             PROVE  Prints(p, Owed(p) \ run[p].lost)
    BY DEF ReplayExact
<1> DEFINE key == run[p].history_key
           n == run[p].seen
           ours == {i \in DOMAIN enrolled : ~raced \/ enrolled[i].key = key}
<1>1. key \in used /\ run[p].out[1] = DueTo(key, n, run[p].lost)
      BY DEF ReplayInv, ReplayOK
<1>2. DOMAIN enrolled = 1 .. Len(enrolled) /\ \A e \in 1 .. Len(enrolled) : enrolled[e].key \in used
      BY EnrolledKeys
<1>3. ours = {e \in 1 .. Len(enrolled) : enrolled[e].key = key}
      BY <1>1, <1>2 DEF OneDeviceKey
<1>4. Owed(p) = {i \in 1 .. n : /\ transcript[i].record.kind = "pty"
                               /\ \E e \in ours : enrolled[e].since < i}
      BY DEF Owed
<1> HIDE DEF ours
<1>5. \A i \in 1 .. n : i \in Owed(p) \ run[p].lost <=> Due(key, i) /\ i \notin run[p].lost
      BY <1>3, <1>4 DEF Due, SealedTo
<1> HIDE DEF n
<1>6. [i \in 1 .. n |-> IF i \in Owed(p) \ run[p].lost THEN <<i>> ELSE <<>>]
      = [i \in 1 .. n |-> IF Due(key, i) /\ i \notin run[p].lost THEN <<i>> ELSE <<>>]
      BY <1>5, Zenon
<1> QED BY <1>1, <1>6, Zenon DEF DueTo, Prints, n

(* However many devices are enrolled, agents restart, records are made and *)
(* lines damaged, a replay that prints at all prints in order and once the *)
(* terminal output recorded since its key was enrolled, but for a record   *)
(* whose damage hides that it is the device's (history.rs:84-138,          *)
(* main.rs:157-166).                                                       *)
THEOREM ReplaysPrintWhatIsDue == Spec => []ReplayExact
<1>1. Init => ReplayInv
  <2> SUFFICES ASSUME Init PROVE ReplayInv
      OBVIOUS
  <2>1. TranscriptOK /\ EnrolledOK
        BY DEF Init, TranscriptOK, EnrolledOK
  <2>2. HaveUsed /\ DOMAIN run = Process
        BY DEF Init, DeviceInit, HaveUsed
  <2>3. \A p \in Process : ReplayOK(run[p], pc[p])
        BY DEF Init, Process0, ReplayOK, Shaped, Requests
  <2> QED BY <2>1, <2>2, <2>3 DEF ReplayInv
<1>2. Spec => []DeviceTypeOK
      BY ClientImplementsDevice, DeviceTypeCorrect, PTL
<1> QED BY <1>1, <1>2, ReplayStep, ReplaysAreExact, ClientHasOneKey, PTL DEF Spec
=============================================================================
