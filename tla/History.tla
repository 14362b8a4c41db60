------------------------------- MODULE History -------------------------------
(***************************************************************************)
(* Opening the sealed records of a transcript (dd-client-session           *)
(* history.rs).                                                            *)
(*                                                                         *)
(* A sealed line has a stanza per recipient and a body, or it is no longer *)
(* a string.  Cryptography is external: a stanza gives the content key to  *)
(* its recipient alone.  Each part is "whole", "garbled" (it decodes, and  *)
(* does not decrypt) or "malformed" (it does not decode).                  *)
(***************************************************************************)
EXTENDS Integers, SequencesExt

TerminalKinds == {"pty", "stdout", "stderr"}

Opens(stanza, key) == stanza.to = key /\ stanza.part = "whole"

Malformed == [tag |-> "err"]
NotForUs == [tag |-> "none"]
Opened(record) == [tag |-> "some", record |-> record]

(* open_record.  Stanzas are tried in their order up to the first that is  *)
(* ours; one of these that is malformed fails the record.                  *)
OpenRecord(key, line) ==
  LET ours == {i \in DOMAIN line.rcpts : Opens(line.rcpts[i], key)}
      tried == {i \in DOMAIN line.rcpts : \A j \in ours : i <= j}
  IN IF \/ line.v # 2 \/ line.body = "malformed"
        \/ \E i \in tried : line.rcpts[i].part = "malformed"
     THEN Malformed
     ELSE IF ours = {} THEN NotForUs
     ELSE IF line.body = "garbled" THEN Malformed
     ELSE Opened(line.record)

(* What is not a string is passed over, like a record of another device.   *)
Open(key, line) == IF line.string THEN OpenRecord(key, line) ELSE NotForUs

IsOutput(key, line) ==
  LET opened == Open(key, line)
  IN opened.tag = "some" /\ opened.record.kind \in TerminalKinds

Unreadable(key, line) ==
  \/ Open(key, line).tag = "err"
  \/ IsOutput(key, line) /\ line.record.data_malformed

(* What a line adds to the output: its data if it is terminal output.      *)
Added(key, line) == IF IsOutput(key, line) THEN <<line.record.data>> ELSE <<>>

DecryptReplay_SkipsMalformed(key, lines) ==
  <<FlattenSeq([i \in DOMAIN lines |->
      IF Unreadable(key, lines[i]) THEN <<>> ELSE Added(key, lines[i])])>>

(* decrypt_replay: <<bytes>>, or <<>> if it fails.                         *)
DecryptReplay(key, lines) ==
  IF \E i \in DOMAIN lines : Unreadable(key, lines[i]) THEN <<>>
  ELSE <<FlattenSeq([i \in DOMAIN lines |-> Added(key, lines[i])])>>
=============================================================================
