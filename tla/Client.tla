-------------------------------- MODULE Client --------------------------------
(***************************************************************************)
(* The command line client from start to exit (dd-client-cli main.rs, with *)
(* connect, call and the requests of dd-client-core lib.rs): a process     *)
(* loads the device key, verifies the agent, connects, sends its requests  *)
(* and prints what comes back.                                             *)
(*                                                                         *)
(* Several processes share the key file.  The agent may restart between    *)
(* any two steps, with a new Noise key; the agent with number a has key a. *)
(* It seals each record of the session's transcript to the keys enrolled   *)
(* at the time.                                                            *)
(***************************************************************************)
EXTENDS DeviceKey, Attestation, History

CONSTANTS Command,      \* the commands that are run
          Args,         \* the options they are run with
          MaxRuns,      \* bound on the processes started
          MaxAgents,    \* bound on the agent's lives
          MaxRecords    \* bound on the records of the transcript

VARIABLES run,          \* what each process is doing
          agent,        \* the life of the agent
          enrolled,     \* the device's keys, enrolled after how many records
          transcript,   \* the session's records
          runs          \* auxiliary: processes started so far

remote == <<agent, enrolled, transcript>>
vars == <<device, run, remote, runs>>

-----------------------------------------------------------------------------
(* The requests of each command, in their order.                           *)
Requests ==
  [keygen   |-> <<>>,
   pubkey   |-> <<>>,
   recipes  |-> <<"shell.list_recipes">>,
   sessions |-> <<"shell.list_sessions">>,
   create   |-> <<"shell.create_session">>,
   replay   |-> <<"shell.replay_session">>,
   resize   |-> <<"shell.resize_session">>,
   close    |-> <<"shell.close_session">>,
   attach   |-> <<"shell.attach_session">>,
   watch    |-> <<"shell.attach_session">>,
   shell    |-> <<"shell.create_session", "shell.attach_session">>,
   exec     |-> <<"exec">>]

ASSUME CommandAssumption == Command \subseteq DOMAIN Requests

Connects(p) == Requests[run[p].cmd] # <<>>

(* A process: its command; how far it is; the key a replay loads for       *)
(* itself; the agent key it verified; the agent it is connected to; the    *)
(* requests it has still to send; what a replay printed: <<>>, or          *)
(* <<bytes>>.  Auxiliary: the agent the user has reason to trust; how many *)
(* records a replay was sent, and which of them by then no longer showed   *)
(* that they are the device's.                                             *)
Process0 ==
  [cmd |-> "keygen", at |-> "start", history_key |-> None,
   server |-> None, peer |-> None, left |-> <<>>, out |-> <<>>,
   trusted |-> None, seen |-> 0, lost |-> {}]

Failed == [Process0 EXCEPT !.at = "failed"]

Init ==
  /\ DeviceInit
  /\ run = [p \in Process |-> Process0]
  /\ agent = 1
  /\ enrolled = <<>>
  /\ transcript = <<>>
  /\ runs = 0

-----------------------------------------------------------------------------
(***************************************************************************)
(* The key, before anything else.  A process that has ended makes room for *)
(* a new one.                                                              *)
(***************************************************************************)
Start(p) ==
  /\ run[p].at \in {"start", "done", "failed"}
  /\ runs < MaxRuns
  /\ runs' = runs + 1
  /\ \E c \in Command :
       run' = [run EXCEPT ![p] = [Process0 EXCEPT !.cmd = c, !.at = "key"]]
  /\ Load(p)
  /\ UNCHANGED remote

LoadingKey(p) ==
  /\ run[p].at = "key"
  /\ LoadStep(p)
  /\ run' = IF pc'[p] = "failed" THEN [run EXCEPT ![p] = Failed] ELSE run
  /\ UNCHANGED <<remote, runs>>

HasKey(p) == run[p].at = "key" /\ pc[p] = "have"

PrintKey(p) ==
  /\ HasKey(p) /\ ~Connects(p)
  /\ run' = [run EXCEPT ![p] = [run[p] EXCEPT !.at = "done"]]
  /\ UNCHANGED <<device, remote, runs>>

(* A replay loads the key for itself; connect will load it once more.      *)
NeedsHistoryKey(p) == run[p].cmd = "replay" /\ run[p].history_key = None

LoadHistoryKey(p) ==
  /\ HasKey(p) /\ NeedsHistoryKey(p)
  /\ run' = [run EXCEPT ![p] = [run[p] EXCEPT !.history_key = secret[p]]]
  /\ Load(p)
  /\ UNCHANGED <<remote, runs>>

-----------------------------------------------------------------------------
(***************************************************************************)
(* connect.  Health and the websocket are two connections: the agent may   *)
(* have restarted in between.                                              *)
(***************************************************************************)
Report(key) == [encoding |-> "hex", bytes |-> 64, key |-> key, rest_zero |-> TRUE]

Token(key) ==
  [alg |-> "ES256", kid |-> "k", signed_by |-> "k", iss |-> Issuer,
   exp |-> Now, mrtd |-> "aa", tcb_status |-> "UpToDate",
   report_data |-> Report(key)]

(* What an agent may serve: its token, one of an earlier life, one that    *)
(* differs in one respect, or none.                                        *)
Tokens ==
  LET t == Token(agent)
  IN {Token(a) : a \in 1 .. agent}
       \cup {[t EXCEPT !.alg = "HS256"], [t EXCEPT !.kid = ""],
             [t EXCEPT !.signed_by = "other"], [t EXCEPT !.iss = "other"]}
       \cup {[t EXCEPT !.exp = Now - Leeway - late] : late \in 0 .. 1}
       \cup {[t EXCEPT !.mrtd = m] : m \in {"AA", "bb", ""}}
       \cup {[t EXCEPT !.tcb_status = s] : s \in {"OutOfDate", ""}}
       \cup {[t EXCEPT !.report_data.encoding = e] : e \in {"0x hex", "base64", "unknown"}}
       \cup {[t EXCEPT !.report_data.bytes = 48],
             [t EXCEPT !.report_data.bytes = 32],
             [t EXCEPT !.report_data.rest_zero = FALSE]}

HealthReplies ==
  [ok : {TRUE}, key : {agent}, key_bytes : {32},
   ita_token : {{}} \cup {{t} : t \in Tokens}]
    \cup [ok : BOOLEAN, key : {agent}, key_bytes : {31}, ita_token : {{Token(agent)}}]

(* What a user wants of an agent (lib.rs:27-37), whatever the code checks. *)
Vouches(token, flags, key) ==
  LET pins == {Lower(m) : m \in flags.expected_mrtd} \ {""}
      report == token.report_data
  IN /\ token.alg # "HS256"      \* anyone with the public key could sign it
     /\ token.signed_by = "k" /\ token.iss = Issuer /\ token.exp >= Now - Leeway
     /\ report.encoding # "unknown" /\ report.bytes \in {32, 64}
     /\ report.key = key /\ report.rest_zero
     /\ pins # {} =>
          /\ Lower(token.mrtd) \in pins
          /\ flags.expected_tcb # "" => token.tcb_status = flags.expected_tcb

Trusted(health, flags) ==
  \/ flags.insecure_skip_quote_verify
  \/ \E token \in health.ita_token : Vouches(token, flags, health.key)

(* The command line's options are first looked at here.                    *)
FetchServerKey(p) ==
  /\ HasKey(p) /\ Connects(p) /\ ~NeedsHistoryKey(p)
  /\ \E health \in HealthReplies, jwks \in {{}, {"k"}}, flags \in Args :
       LET opts == ConnectionOptions(flags)
       IN run' = [run EXCEPT ![p] =
                    IF ServerKeyVerified(health, jwks, opts)
                    THEN [run[p] EXCEPT !.at = "dial", !.server = health.key,
                            !.trusted = IF Trusted(health, flags) THEN health.key
                                        ELSE None]
                    ELSE Failed]
  /\ UNCHANGED <<device, remote, runs>>

(* Noise IK: the first message can be read with the server's key only.     *)
Handshake(p) ==
  /\ run[p].at = "dial"
  /\ IF run[p].server = agent
     THEN run' = [run EXCEPT ![p] = [run[p] EXCEPT !.at = "call", !.peer = agent,
                                                   !.left = Requests[run[p].cmd]]]
     ELSE run' = [run EXCEPT ![p] = Failed]
  /\ UNCHANGED <<device, remote, runs>>

(* The network, or an agent that does not know this device's key.          *)
ConnectionFails(p) ==
  /\ run[p].at \in {"dial", "call"}
  /\ run' = [run EXCEPT ![p] = Failed]
  /\ UNCHANGED <<device, remote, runs>>

-----------------------------------------------------------------------------
(***************************************************************************)
(* call: one request, one response.  A connection does not outlive its     *)
(* agent.                                                                  *)
(***************************************************************************)
MayCall(p) == run[p].at = "call" /\ run[p].peer = agent

Request(p) == Head(run[p].left)

Done == [Process0 EXCEPT !.at = "done"]

(* The response is printed, or for a session taken up.                     *)
CallReturns(p) ==
  /\ MayCall(p) /\ Request(p) # "shell.replay_session"
  /\ run' = [run EXCEPT ![p] =
               IF Len(run[p].left) > 1 THEN [run[p] EXCEPT !.left = Tail(@)]
               ELSE [Done EXCEPT !.cmd = run[p].cmd]]
  /\ UNCHANGED <<device, remote, runs>>

(* An error, or no session id: session_id, run and decrypt_replay fail;    *)
(* the others print it.                                                    *)
CallFails(p) ==
  /\ MayCall(p)
  /\ \/ Request(p) \in {"shell.attach_session", "shell.replay_session"}
     \/ run[p].cmd = "shell"
  /\ run' = [run EXCEPT ![p] = Failed]
  /\ UNCHANGED <<device, remote, runs>>

(* The lines of the transcript, one of which may have been damaged since.  *)
Damaged(sealed) ==
  {[sealed EXCEPT !.string = FALSE],
   [sealed EXCEPT !.v = 1],
   [sealed EXCEPT !.record.data_malformed = TRUE]}
    \cup {[sealed EXCEPT !.body = part] : part \in {"garbled", "malformed"}}
    \cup {[sealed EXCEPT !.rcpts[i].part = part] :
             i \in DOMAIN sealed.rcpts, part \in {"garbled", "malformed"}}

Lines ==
  {transcript} \cup
  UNION {{[transcript EXCEPT ![i] = line] : line \in Damaged(transcript[i])} :
         i \in DOMAIN transcript}

(* Damage after which a line does not show that it is sealed to the key.   *)
Hidden(key, sealed, line) ==
  \/ ~line.string
  \/ \A i \in DOMAIN sealed.rcpts :
       sealed.rcpts[i].to = key => line.rcpts[i].part = "garbled"

ReplayReturns(p) ==
  /\ MayCall(p) /\ Request(p) = "shell.replay_session"
  /\ \E lines \in Lines :
       LET key == run[p].history_key
           printed == DecryptReplay(key, lines)
       IN run' = [run EXCEPT ![p] =
                    IF printed = <<>> THEN Failed
                    ELSE [Done EXCEPT !.cmd = "replay", !.history_key = key,
                             !.out = printed, !.seen = Len(lines),
                             !.lost = {i \in DOMAIN lines :
                                         Hidden(key, transcript[i], lines[i])}]]
  /\ UNCHANGED <<device, remote, runs>>

-----------------------------------------------------------------------------
(***************************************************************************)
(* The other side: the agent, its transcript, and the user who enrols the  *)
(* key a process has printed.  Another device is enrolled from the start.  *)
(***************************************************************************)
AgentRestarts ==
  /\ agent < MaxAgents
  /\ agent' = agent + 1
  /\ UNCHANGED <<device, run, enrolled, transcript, runs>>

Enrol(p) ==
  /\ run[p].at = "done" /\ ~Connects(p)
  /\ \A i \in DOMAIN enrolled : enrolled[i].key # secret[p]
  /\ enrolled' = Append(enrolled, [key |-> secret[p], since |-> Len(transcript)])
  /\ UNCHANGED <<device, run, agent, transcript, runs>>

OtherDevice == -1

Stanza(key) == [to |-> key, part |-> "whole"]

Sealed(kind) ==
  [string |-> TRUE,
   v |-> 2,
   rcpts |-> <<Stanza(OtherDevice)>>
               \o [i \in DOMAIN enrolled |-> Stanza(enrolled[i].key)],
   body |-> "whole",
   record |-> [kind |-> kind, data |-> Len(transcript) + 1, data_malformed |-> FALSE]]

Record ==
  /\ Len(transcript) < MaxRecords
  /\ \E kind \in {"pty", "meta"} : transcript' = Append(transcript, Sealed(kind))
  /\ UNCHANGED <<device, run, agent, enrolled, runs>>

-----------------------------------------------------------------------------
Next ==
  \/ \E p \in Process :
       \/ Start(p) \/ LoadingKey(p) \/ PrintKey(p) \/ LoadHistoryKey(p)
       \/ FetchServerKey(p) \/ Handshake(p) \/ ConnectionFails(p)
       \/ CallReturns(p) \/ CallFails(p) \/ ReplayReturns(p)
       \/ Enrol(p)
  \/ AgentRestarts
  \/ Record

Spec == Init /\ [][Next]_vars

-----------------------------------------------------------------------------
(* Every request is answered by the very agent, in its present life, whose *)
(* key a valid token bound and whose measurement the user's pins allow,    *)
(* unless the user asked to skip this (lib.rs:34-37, 347-437).  The token  *)
(* and the answer come over different connections.                         *)
RequestsReachAttested ==
  \A p \in Process : run[p].at = "call" => run[p].peer = run[p].trusted

(* The terminal output recorded since the device was enrolled, by          *)
(* whichever process its key was first shown.                              *)
Owed(p) ==
  LET ours == {i \in DOMAIN enrolled :
                 ~raced \/ enrolled[i].key = run[p].history_key}
  IN {i \in 1 .. run[p].seen : /\ transcript[i].record.kind = "pty"
                               /\ \E e \in ours : enrolled[e].since < i}

Prints(p, records) ==
  run[p].out[1] =
    FlattenSeq([i \in 1 .. run[p].seen |-> IF i \in records THEN <<i>> ELSE <<>>])

(* A replay prints, in order and once, what it owes, or nothing at all: it *)
(* leaves out a damaged record only if the damage hides that it is the     *)
(* device's, and no other damage goes unnoticed (history.rs:84-138,        *)
(* main.rs:157-166).                                                       *)
ReplayExact ==
  \A p \in Process : run[p].out # <<>> => Prints(p, Owed(p) \ run[p].lost)

(* What a replay skips are the records that were not sealed to its device: *)
(* "not our recipient - skip" (history.rs:131); open_record has            *)
(* nothing to return "if this device is not a recipient", and an error for *)
(* malformed input (history.rs:82-83).                                     *)
SkipsOnlyOthers ==
  \A p \in Process : run[p].out # <<>> => Prints(p, Owed(p))
=============================================================================
