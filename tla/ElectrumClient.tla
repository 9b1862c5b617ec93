----------------------------- MODULE ElectrumClient -----------------------------
(***************************************************************************)
(* The calls of a light wallet on its Electrum servers: connection,        *)
(* failover, backoff and cooldown of ElectrumLightClient                   *)
(* (electrum/manager.rs), by several callers at once.                      *)
(*                                                                         *)
(* Simplifications:                                                        *)
(*  - a server behaves in one of a few ways until it changes; a change     *)
(*    breaks the connections to it;                                        *)
(*  - a request and its answer are one step, and times are left out;       *)
(*  - handshakes are answered by every server that can be reached, but for *)
(*    those that are silent;                                               *)
(*  - the indexing budget is in GapScan.                                   *)
(***************************************************************************)
EXTENDS Integers, FiniteSets

CONSTANTS
  Callers,      \* the calls that may be under way together
  N,            \* how many servers are configured
  Retries,      \* RATE_LIMIT_RETRIES
  Kinds,        \* the kinds of call that are made, among CallKinds
  Behaviours,   \* how servers may behave, among ServerBehaviours
  MaxChanges    \* bound: how often a server changes

\* call_with_failover; its critical form; a call of fetch_scripthash_json; get_raw_tx_hex;
\* the probe of light_server_status.
CallKinds == {"gated", "critical", "script", "lookup", "status"}

\* Serves all; cannot be reached; is reached but lets one wait for its handshake for ever;
\* lets calls fail; refuses them as too many, or with code -101 and the words of ElectrumX;
\* has not the transactions looked up.
ServerBehaviours == {"up", "dead", "silent", "mute", "limiting", "excessive", "lacking"}

ASSUME ClientAssumption ==
  /\ IsFiniteSet(Callers)
  /\ N \in Nat \ {0}
  /\ Retries \in Nat \ {0}
  /\ Kinds \subseteq CallKinds
  /\ Behaviours \subseteq ServerBehaviours
  /\ MaxChanges \in Nat

Servers == 0..(N - 1)

VARIABLES
  serves,       \* how each server behaves
  active,       \* active_index
  connection,   \* the client's connection
  failures,     \* consecutive_failures, of which only 0, 1 and more matter
  cooling,      \* is_in_cooldown
  call,         \* the call of each caller, and what its last one returned
  changes       \* what the bound counts

vars == <<serves, active, connection, failures, cooling, call, changes>>

None == [server |-> 0, open |-> FALSE, none |-> TRUE]
To(s) == [server |-> s, open |-> TRUE, none |-> FALSE]
Connections == [server : Servers, open : BOOLEAN, none : BOOLEAN]

Results == {"none", "ok", "paused", "limited", "transport", "lookup", "excessive"}

CallStates ==
  [ pc : {"idle", "ensure", "connect", "greet", "rpc", "drop"},
    kind : CallKinds,
    mode : {"first", "backoff", "last", "once"},   \* which function awaits the answer
    conn : Connections,
    start : Servers,        \* start_idx of reconnect
    offset : Servers,
    from : Servers,         \* start_idx of get_raw_tx_hex
    attempt : Servers,      \* and its attempt
    tries : 0..Retries,     \* attempt of call_with_backoff
    move : BOOLEAN,         \* fails >= 2
    asked : 0..(Retries + 2),  \* requests of the call, or of the attempt of a lookup:
                               \* retries on refusals and on failures keep within one
                               \* more than both allow (manager.rs:182-214)
    result : Results,
    owed : {"nothing", "answer", "search"} ]

TypeOK ==
  /\ serves \in [Servers -> ServerBehaviours]
  /\ active \in Servers
  /\ connection \in Connections
  /\ failures \in 0..2
  /\ cooling \in BOOLEAN
  /\ call \in [Callers -> CallStates]
  /\ changes \in 0..MaxChanges

Quiet ==
  [ pc |-> "idle", kind |-> "gated", mode |-> "first", conn |-> None, start |-> 0,
    offset |-> 0, from |-> 0, attempt |-> 0, tries |-> 0, move |-> FALSE, asked |-> 0,
    result |-> "none", owed |-> "nothing" ]

Init ==
  /\ serves \in [Servers -> Behaviours]
  /\ active = 0
  /\ connection = None
  /\ failures = 0
  /\ cooling = FALSE
  /\ call = [c \in Callers |-> Quiet]
  /\ changes = 0

\* Mutated form: the servers are not taken in a circle.
AfterUnwrapped(s) == s + 1

\* The server that failing over goes to.
After(s) == (s + 1) % N

Becomes(c, r) == call' = [call EXCEPT ![c] = r]

\* The request of the call is sent.
Asking(r) == [r EXCEPT !.pc = "rpc", !.asked = IF @ < Retries + 3 THEN @ + 1 ELSE @]

-----------------------------------------------------------------------------
(* The beginning and the end of a call.                                    *)

\* Whether a server answers this kind of call.
Answers(s, kind) == serves[s] = "up" \/ (serves[s] = "lacking" /\ kind # "lookup")

\* What a call of this kind may expect as long as no server changes: an answer, when the
\* servers that can be reached give one; a search of them all, when it looks up a
\* transaction that some have and others have not. The probe promises nothing.
Owed(kind) ==
  IF kind = "status" \/ ~\E s \in Servers : Answers(s, kind) THEN "nothing"
  ELSE IF \A s \in Servers : Answers(s, kind) \/ serves[s] = "dead" THEN "answer"
  ELSE IF \A s \in Servers : serves[s] \in {"up", "lacking", "dead"} THEN "search"
  ELSE "nothing"

FirstMode(kind) ==
  CASE kind = "script" -> "backoff" [] kind = "status" -> "once" [] OTHER -> "first"

Begin(c, kind) ==
  /\ call[c].pc = "idle"
  /\ IF cooling /\ kind \in {"gated", "status"}
       THEN Becomes(c, [Quiet EXCEPT !.result = "paused"])
       ELSE Becomes(c, [Quiet EXCEPT !.pc = "ensure", !.kind = kind, !.mode = FirstMode(kind),
                                     !.from = IF kind = "lookup" THEN active ELSE 0,
                                     !.owed = Owed(kind)])
  /\ UNCHANGED <<serves, active, connection, failures, cooling, changes>>

Returns(c, result) ==
  Becomes(c, [Quiet EXCEPT !.result = result, !.owed = call[c].owed])

\* Mutated form: the search ends one server early.
SearchEndsEarly(c) == call[c].attempt + 2 >= N

SearchedAll(c) == call[c].attempt + 1 = N

\* get_raw_tx_hex passes over to another server.
NextServer(c) ==
  /\ active' = After(call[c].from + call[c].attempt)
  /\ connection' = None
  /\ IF SearchedAll(c)
       THEN Returns(c, "lookup")
       ELSE Becomes(c, [Quiet EXCEPT !.pc = "ensure", !.kind = "lookup", !.from = call[c].from,
                                     !.attempt = call[c].attempt + 1, !.owed = call[c].owed])

\* A result that no retry follows.
Ends(c, result) ==
  IF call[c].kind = "lookup" /\ result = "lookup" /\ N > 1
    THEN NextServer(c)
    ELSE Returns(c, result) /\ UNCHANGED <<active, connection>>

-----------------------------------------------------------------------------
(* Connecting.                                                             *)

\* ensure_connected takes the client's connection, or goes on to reconnect.
Ensure(c) ==
  /\ call[c].pc = "ensure"
  /\ Becomes(c, IF connection.none
                  THEN [call[c] EXCEPT !.pc = "connect", !.start = active, !.offset = 0]
                  ELSE Asking([call[c] EXCEPT !.conn = connection]))
  /\ UNCHANGED <<serves, active, connection, failures, cooling, changes>>

\* Mutated form: the last server is not tried.
TriedAllButOne(c) == call[c].offset + 2 >= N

TriedAll(c) == call[c].offset + 1 = N

Candidate(c) == (call[c].start + call[c].offset) % N

\* reconnect gets through to a server.  Nothing limits the time that it waits for one that is
\* silent: only the calls on a connection have a timeout.
Connects(c) ==
  /\ call[c].pc = "connect"
  /\ serves[Candidate(c)] \notin {"dead", "silent"}
  /\ active' = Candidate(c)
  /\ failures' = 0
  /\ Becomes(c, [call[c] EXCEPT !.pc = "greet", !.conn = To(Candidate(c)), !.start = 0,
                                !.offset = 0])
  /\ UNCHANGED <<serves, connection, cooling, changes>>

\* The server has been asked for its tip, and the connection becomes the client's.
Greeted(c) ==
  /\ call[c].pc = "greet"
  /\ connection' = call[c].conn
  /\ Becomes(c, Asking(call[c]))
  /\ UNCHANGED <<serves, active, failures, cooling, changes>>

\* It goes on to the next server.
ConnectRefused(c) ==
  /\ call[c].pc = "connect"
  /\ serves[Candidate(c)] = "dead"
  /\ ~TriedAll(c)
  /\ Becomes(c, [call[c] EXCEPT !.offset = @ + 1])
  /\ UNCHANGED <<serves, active, connection, failures, cooling, changes>>

AllRefuse(c) ==
  /\ call[c].pc = "connect"
  /\ serves[Candidate(c)] = "dead"
  /\ TriedAll(c)

-----------------------------------------------------------------------------
(* Answers.                                                                *)

\* What comes of a request on the connection of c.
Answer(c) ==
  LET s == call[c].conn.server IN
  IF ~call[c].conn.open \/ serves[s] \in {"dead", "silent", "mute"} THEN "transport"
  ELSE IF serves[s] = "limiting" THEN "limited"
  ELSE IF serves[s] = "excessive" THEN "excessive"
  ELSE IF serves[s] = "lacking" /\ call[c].kind = "lookup" THEN "lookup"
  ELSE "ok"

Answered(c, answer) == call[c].pc = "rpc" /\ Answer(c) = answer

\* Mutated form: the code of the error is looked at.
IsRateLimitedByCode(answer) == answer \in {"limited", "excessive"}

\* is_electrum_rate_limited looks for words, and code -101 comes with others.
IsRateLimited(answer) == answer = "limited"

\* call_with_failover_inner and call_with_backoff retry; the last call of
\* failover_and_retry and the probe do not.
Retryable(c) == call[c].mode \in {"first", "backoff"}

AnsweredOk(c) ==
  /\ Answered(c, "ok")
  /\ failures' = IF Retryable(c) THEN 0 ELSE failures
  /\ Returns(c, "ok")
  /\ UNCHANGED <<serves, active, connection, cooling, changes>>

\* The first refusal of call_with_failover_inner hands the call to call_with_backoff.
BackoffBegins(c) ==
  /\ call[c].pc = "rpc"
  /\ call[c].mode = "first"
  /\ IsRateLimited(Answer(c))
  /\ Becomes(c, [call[c] EXCEPT !.pc = "ensure", !.mode = "backoff", !.tries = 0])
  /\ UNCHANGED <<serves, active, connection, failures, cooling, changes>>

\* Mutated form: the tries are not counted.
TriesAfter(c) == call[c].tries

TriesNow(c) == call[c].tries + 1

\* A refusal in call_with_backoff begins or prolongs the cooldown.
BacksOff(c) ==
  /\ call[c].pc = "rpc"
  /\ call[c].mode = "backoff"
  /\ IsRateLimited(Answer(c))
  /\ cooling' = TRUE
  /\ IF TriesNow(c) = Retries
       THEN Returns(c, "limited")
       ELSE Becomes(c, [call[c] EXCEPT !.pc = "ensure", !.tries = TriesNow(c)])
  /\ UNCHANGED <<serves, active, connection, failures, changes>>

\* A transport error where failover_and_retry takes over.
TransportFails(c) ==
  /\ Answered(c, "transport") \/ AllRefuse(c)
  /\ Retryable(c)
  /\ failures' = IF failures = 0 THEN 1 ELSE 2
  /\ Becomes(c, [call[c] EXCEPT !.pc = "drop", !.move = failures > 0])
  /\ UNCHANGED <<serves, active, connection, cooling, changes>>

DropConnection == connection' = None

\* failover_and_retry up to its reconnect.
FailsOver(c) ==
  /\ call[c].pc = "drop"
  /\ DropConnection
  /\ IF call[c].move /\ N > 1
       THEN active' = After(active) /\ failures' = 0
       ELSE UNCHANGED <<active, failures>>
  /\ Becomes(c, [call[c] EXCEPT !.pc = "connect", !.mode = "last", !.start = active',
                                !.offset = 0, !.move = FALSE])
  /\ UNCHANGED <<serves, cooling, changes>>

\* Any other error ends the call, or the attempt of a lookup.
ErrorEnds(c) ==
  /\ \/ call[c].pc = "rpc" /\ Answer(c) # "ok"
     \/ AllRefuse(c)
  /\ LET answer == IF call[c].pc = "rpc" THEN Answer(c) ELSE "transport" IN
     /\ Retryable(c) => answer # "transport" /\ ~IsRateLimited(answer)
     /\ Ends(c, answer)
  /\ UNCHANGED <<serves, failures, cooling, changes>>

Step(c) ==
  \/ Ensure(c) \/ Connects(c) \/ Greeted(c) \/ ConnectRefused(c)
  \/ AnsweredOk(c) \/ BackoffBegins(c) \/ BacksOff(c)
  \/ TransportFails(c) \/ FailsOver(c) \/ ErrorEnds(c)

-----------------------------------------------------------------------------
(* What happens around the client.                                         *)

CooldownEnds ==
  /\ cooling
  /\ cooling' = FALSE
  /\ UNCHANGED <<serves, active, connection, failures, call, changes>>

\* The connection k after server s has changed.
Broken(k, s) == IF k.server = s /\ ~k.none THEN [k EXCEPT !.open = FALSE] ELSE k

ServerChanges(s, behaviour) ==
  /\ changes < MaxChanges
  /\ behaviour # serves[s]
  /\ changes' = changes + 1
  /\ serves' = [serves EXCEPT ![s] = behaviour]
  /\ connection' = Broken(connection, s)
  /\ call' = [c \in Callers |->
                IF call[c].pc = "idle" THEN call[c]
                ELSE [call[c] EXCEPT !.conn = Broken(@, s), !.owed = "nothing"]]
  /\ UNCHANGED <<active, failures, cooling>>

Next ==
  \/ \E c \in Callers : Step(c) \/ \E kind \in Kinds : Begin(c, kind)
  \/ CooldownEnds
  \/ \E s \in Servers : \E behaviour \in Behaviours : ServerChanges(s, behaviour)

Spec == Init /\ [][Next]_vars

\* Answers come or time out (ELECTRUM_CALL_TIMEOUT), and backoff sleeps for a time.  Connecting
\* succeeds or is refused, except where a server is silent: there no step is enabled.
Running == \A c \in Callers : WF_vars(Step(c))
FairSpec == Spec /\ Running

\* A wallet that goes on calling, through cooldowns that end.
BusySpec ==
  /\ FairSpec
  /\ WF_vars(CooldownEnds)
  /\ \A c \in Callers : WF_vars(\E kind \in Kinds : Begin(c, kind))

-----------------------------------------------------------------------------
(* What the client promises.                                               *)

\* As long as no server changes, a call gets its answer when every server that can be
\* reached would give it, whatever connection it found and whatever other callers do to
\* the connection and the active server meanwhile (manager.rs:216-230).
ReachableServerAnswers ==
  \A c \in Callers :
    call[c].pc = "idle" /\ call[c].owed = "answer" => call[c].result \in {"ok", "paused"}

\* As long as no server changes, looking up a transaction finds it when some server that
\* can be reached has it and the others answer that they have not (manager.rs:495-522).
LookupAsksEveryServer ==
  \A c \in Callers : call[c].pc = "idle" /\ call[c].owed = "search" => call[c].result = "ok"

\* A call waits for a silent server.
Hangs(c) == call[c].pc = "connect" /\ serves[Candidate(c)] = "silent"

\* Every call returns, whatever other callers and the servers do, unless it waits for a silent
\* server to let it connect: neither backoff, failover nor the search for a transaction goes
\* round for ever (manager.rs:182-230).
CallsReturn == \A c \in Callers : call[c].pc # "idle" ~> call[c].pc = "idle" \/ Hangs(c)

\* Every call returns, silent servers or not.  Not so: ElectrumClient_silent.cfg.
CallsAlwaysReturn == \A c \in Callers : call[c].pc # "idle" ~> call[c].pc = "idle"

\* With a server up, a caller that goes on calling is answered (manager.rs:1, 219).
FailoverReachesServer ==
  \A c \in Callers : []<>(call[c].result = "ok" \/ ~\E s \in Servers : serves[s] = "up")

\* No new call sends a request while the client pauses, but for those that are meant to
\* bypass the pause (throttle.rs:26, manager.rs:246).
QuietDuringCooldown ==
  [][\A c \in Callers :
       call[c].pc # "rpc" /\ call'[c].pc = "rpc" /\ call[c].asked = 0
         /\ call[c].kind \in {"gated", "script"} => ~cooling]_vars

\* A call that is told of excessive usage leaves the client pausing (throttle.rs:11).
ExcessiveUsagePauses ==
  [][\A c \in Callers : Answered(c, "excessive") /\ call[c].kind = "script"
       /\ call'[c] # call[c] => cooling']_vars
=============================================================================
