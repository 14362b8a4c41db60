------------------------------ MODULE DeviceKey ------------------------------
(***************************************************************************)
(* The key file of a device (dd-client-core lib.rs: load_or_create_key,    *)
(* persist_key), shared by every process that is started with its path.    *)
(*                                                                         *)
(* A file is an inode: a process that has it open keeps it across a rename *)
(* and a truncation shows to all.  The 32 bytes are written by one call,   *)
(* so that an inode is empty or holds one key; keys are numbered as they   *)
(* are generated.  Directories and file modes are left out.                *)
(***************************************************************************)
EXTENDS Integers, Sequences

CONSTANT Process

Empty == 0      \* an inode without bytes
None == 0       \* no inode under this name, or no key

VARIABLES inode,    \* what each inode holds, oldest first
          path,     \* the inode under the key's path
          tmp,      \* the inode under the temporary path
          pc,       \* where each process is in load_or_create_key
          fd,       \* the inode each process has open
          secret,   \* the key each process has, or is about to store
          made,     \* keys generated so far
          used,     \* auxiliary: keys returned to a caller
          raced,    \* auxiliary: two first runs have overlapped
          torn      \* auxiliary: a process died between truncation and write

device == <<inode, path, tmp, pc, fd, secret, made, used, raced, torn>>
files == <<inode, path, tmp>>

Creating == {"create", "write", "permit", "rename"}
Loading == {"open", "read"} \cup Creating
Pc == {"idle", "have", "failed"} \cup Loading

DeviceInit ==
  /\ inode = <<>>
  /\ path = None
  /\ tmp = None
  /\ pc = [p \in Process |-> "idle"]
  /\ fd = [p \in Process |-> None]
  /\ secret = [p \in Process |-> None]
  /\ made = 0
  /\ used = {}
  /\ raced = FALSE
  /\ torn = FALSE

Goto(p, place) == pc' = [pc EXCEPT ![p] = place]

Return(p, key) ==
  /\ Goto(p, "have")
  /\ fd' = [fd EXCEPT ![p] = None]
  /\ secret' = [secret EXCEPT ![p] = key]
  /\ used' = used \cup {key}

Fail(p) ==
  /\ Goto(p, "failed")
  /\ fd' = [fd EXCEPT ![p] = None]
  /\ secret' = [secret EXCEPT ![p] = None]
  /\ UNCHANGED used

-----------------------------------------------------------------------------
(***************************************************************************)
(* load_or_create_key.                                                     *)
(***************************************************************************)
Load(p) ==
  /\ pc[p] \in {"idle", "have", "failed"}
  /\ Goto(p, "open")
  /\ secret' = [secret EXCEPT ![p] = None]
  /\ UNCHANGED <<files, fd, made, used, raced, torn>>

OpenKey(p) ==
  /\ pc[p] = "open"
  /\ path # None
  /\ fd' = [fd EXCEPT ![p] = path]
  /\ Goto(p, "read")
  /\ UNCHANGED <<files, secret, made, used, raced, torn>>

ReadKey(p) ==
  /\ pc[p] = "read"
  /\ IF inode[fd[p]] # Empty THEN Return(p, inode[fd[p]])
     ELSE Fail(p)
  /\ UNCHANGED <<files, made, raced, torn>>

NotFound(p) ==
  /\ pc[p] = "open"
  /\ path = None
  /\ made' = made + 1
  /\ secret' = [secret EXCEPT ![p] = made']
  /\ raced' = (raced \/ \E q \in Process : pc[q] \in Creating)
  /\ Goto(p, "create")
  /\ UNCHANGED <<files, fd, used, torn>>

-----------------------------------------------------------------------------
(***************************************************************************)
(* persist_key.  Opening the temporary file creates or truncates it.       *)
(***************************************************************************)
CreateTmp_InPlace(p) ==
  /\ pc[p] = "create"
  /\ inode' = Append(inode, Empty)
  /\ path' = Len(inode')
  /\ fd' = [fd EXCEPT ![p] = Len(inode')]
  /\ Goto(p, "write")
  /\ UNCHANGED <<tmp, secret, made, used, raced, torn>>

CreateTmp_KeepsOld(p) ==
  /\ pc[p] = "create"
  /\ IF tmp = None
     THEN /\ inode' = Append(inode, Empty)
          /\ tmp' = Len(inode')
          /\ fd' = [fd EXCEPT ![p] = tmp']
          /\ Goto(p, "write")
     ELSE Goto(p, "permit") /\ UNCHANGED <<inode, tmp, fd>>
  /\ UNCHANGED <<path, secret, made, used, raced, torn>>

CreateTmp(p) ==
  /\ pc[p] = "create"
  /\ IF tmp = None
     THEN inode' = Append(inode, Empty) /\ tmp' = Len(inode')
     ELSE inode' = [inode EXCEPT ![tmp] = Empty] /\ UNCHANGED tmp
  /\ fd' = [fd EXCEPT ![p] = tmp']
  /\ Goto(p, "write")
  /\ UNCHANGED <<path, secret, made, used, raced, torn>>

WriteTmp(p) ==
  /\ pc[p] = "write"
  /\ inode' = [inode EXCEPT ![fd[p]] = secret[p]]
  /\ Goto(p, "permit")
  /\ UNCHANGED <<path, tmp, fd, secret, made, used, raced, torn>>

SetPermissions(p) ==
  /\ pc[p] = "permit"
  /\ IF tmp # None THEN Goto(p, "rename") /\ UNCHANGED <<fd, secret, used>>
     ELSE Fail(p)
  /\ UNCHANGED <<files, made, raced, torn>>

Rename(p) ==
  /\ pc[p] = "rename"
  /\ IF tmp # None
     THEN path' = tmp /\ tmp' = None /\ Return(p, secret[p])
     ELSE Fail(p) /\ UNCHANGED <<path, tmp>>
  /\ UNCHANGED <<inode, made, raced, torn>>

(* The process dies, or a call fails for a reason of its own.              *)
Dies(p) ==
  /\ pc[p] \in Loading
  /\ torn' = (torn \/ pc[p] = "write")
  /\ Fail(p)
  /\ UNCHANGED <<files, made, raced>>

LoadStep(p) ==
  \/ OpenKey(p) \/ ReadKey(p) \/ NotFound(p)
  \/ CreateTmp(p) \/ WriteTmp(p) \/ SetPermissions(p) \/ Rename(p) \/ Dies(p)

-----------------------------------------------------------------------------
(***************************************************************************)
(* The key file alone, under processes that load it again and again.       *)
(***************************************************************************)
DeviceNext == \E p \in Process : Load(p) \/ LoadStep(p)

DeviceSpec == DeviceInit /\ [][DeviceNext]_device

-----------------------------------------------------------------------------
(* Types of the file and the processes (lib.rs:281-296, 332-345).          *)
DeviceTypeOK ==
  /\ inode \in Seq(Nat)
  /\ path \in 0 .. Len(inode) /\ tmp \in 0 .. Len(inode)
  /\ pc \in [Process -> Pc]
  /\ fd \in [Process -> 0 .. Len(inode)]
  /\ \A p \in Process : pc[p] \in {"read", "write"} => fd[p] # None
  /\ secret \in [Process -> Nat]
  /\ made \in Nat
  /\ used \subseteq Nat

(* Whatever process dies wherever, the file under the key's path is whole: *)
(* that is what the rename is for (lib.rs:332-345).  It lacks its bytes    *)
(* only if two first runs overlapped, and then until the slower one has    *)
(* written, or for ever if that one died.                                  *)
KeyFileWhole ==
  path # None /\ inode[path] = Empty =>
    raced /\ (torn \/ \E p \in Process : pc[p] = "write" /\ fd[p] = path)

(* All processes of a device ever get one key, the stored one, so that an  *)
(* enrolled key stays the device's: also after first runs that died at any *)
(* step, as long as no two overlapped (lib.rs:281-296).                    *)
OneDeviceKey ==
  ~raced => \A key \in used : path # None /\ inode[path] = key
=============================================================================
