-------------------------- MODULE ElectrumConnection --------------------------
(***************************************************************************)
(* One connection to an Electrum server, shared by the calls of several    *)
(* tasks (electrum/connection.rs): numbered requests and their answers,    *)
(* one per line, and a timeout that drops a call at whatever it awaits.    *)
(*                                                                         *)
(* Simplifications:                                                        *)
(*  - what the server sends and what a call reads are one step: the server *)
(*    answers in any order, so the order in which lines wait to be read is *)
(*    any as well;                                                         *)
(*  - the two calls of connect, made before others know the connection,    *)
(*    are behind it;                                                       *)
(*  - a line of which the beginning is lost, and two requests run together *)
(*    in one line, are no JSON.                                            *)
(***************************************************************************)
EXTENDS Naturals, FiniteSets

CONSTANTS
    Callers,    \* tasks that call
    MaxCalls,   \* bound: how many calls are made
    MaxSlow     \* bound: how many calls run out of time though they could succeed

ASSUME ConnectionAssumption == MaxCalls \in Nat /\ MaxSlow \in Nat

VARIABLES
    nextId,     \* next_id
    lock,       \* who holds io: a set of at most one caller
    call,       \* the call of each caller
    asked,      \* requests that the server has and has not answered
    junk,       \* part of a request is written, and nobody will write the rest
    torn,       \* the beginning of the next line to read is lost
    open,       \* the server has not closed the connection
    begun,      \* how many calls have begun, which numbers them
    slow,       \* how many have run out of time though they could succeed
    failed      \* how many have failed

vars == <<nextId, lock, call, asked, junk, torn, open, begun, slow, failed>>

\* The calls and requests carry the number of the call, which the program does not see.
\* A call is lost when its request reached the server run together with another's.
Call == [pc : {"idle", "locking", "writing", "reading"}, id : Nat, nr : Nat,
         lost : BOOLEAN, got : Nat]
Request == [id : Nat, nr : Nat]
Idle == [pc |-> "idle", id |-> 0, nr |-> 0, lost |-> FALSE, got |-> 0]

TypeOK ==
    /\ nextId \in Nat
    /\ lock \subseteq Callers
    /\ call \in [Callers -> Call]
    /\ asked \subseteq Request
    /\ \A r \in asked : r.id < nextId /\ r.nr <= begun
    /\ \A c \in Callers : call[c].id < nextId /\ call[c].nr <= begun
    /\ junk \in BOOLEAN
    /\ torn \in BOOLEAN
    /\ open \in BOOLEAN
    /\ begun \in Nat
    /\ slow \in Nat
    /\ failed \in Nat

\* connect has used two numbers, for server.version and server.banner.
Init == /\ nextId = 3
        /\ lock = {}
        /\ call = [c \in Callers |-> Idle]
        /\ asked = {}
        /\ junk = FALSE
        /\ torn = FALSE
        /\ open = TRUE
        /\ begun = 0
        /\ slow = 0
        /\ failed = 0

At(c, pc) == call[c].pc = pc

\* Mutated form: the counter stays.
SameId == nextId
\* fetch_add.
Counted == nextId + 1

\* The number is taken before the lock.
Begin(c) ==
    /\ At(c, "idle")
    /\ begun < MaxCalls
    /\ begun' = begun + 1
    /\ nextId' = Counted
    /\ call' = [call EXCEPT ![c] = [Idle EXCEPT !.pc = "locking", !.id = nextId,
                                                !.nr = begun + 1]]
    /\ UNCHANGED <<lock, asked, junk, torn, open, slow, failed>>

Lock(c) ==
    /\ At(c, "locking")
    /\ lock = {}
    /\ lock' = {c}
    /\ call' = [call EXCEPT ![c].pc = "writing"]
    /\ UNCHANGED <<nextId, asked, junk, torn, open, begun, slow, failed>>

\* write_all and flush: the line runs up to its end, and begins where the last one that
\* was finished ended.
Write(c) ==
    /\ At(c, "writing")
    /\ call' = [call EXCEPT ![c].pc = "reading", ![c].lost = junk]
    /\ asked' = IF junk THEN asked ELSE asked \cup {[id |-> call[c].id, nr |-> call[c].nr]}
    /\ junk' = FALSE
    /\ UNCHANGED <<nextId, lock, torn, open, begun, slow, failed>>

\* Mutated form: a dropped call keeps the lock.
FailsHolding(c) == /\ call' = [call EXCEPT ![c] = Idle]
                   /\ failed' = failed + 1
                   /\ UNCHANGED lock
\* The call ends with an error, and what it holds is dropped.
Fails(c) == /\ call' = [call EXCEPT ![c] = Idle]
            /\ lock' = lock \ {c}
            /\ failed' = failed + 1

\* The call ends with what the line r says, an error of the server included.
Returns(c, r) == /\ call' = [call EXCEPT ![c] = [Idle EXCEPT !.nr = call[c].nr, !.got = r.nr]]
                 /\ lock' = {}
                 /\ UNCHANGED failed

\* Mutated forms: the first answer is taken for the call's own; another's answer is an error.
ReadAnyLine(c) ==
    /\ At(c, "reading")
    /\ ~torn
    /\ \E r \in asked : asked' = asked \ {r} /\ Returns(c, r)
    /\ UNCHANGED <<nextId, junk, torn, open, begun, slow>>
ReadOwnOnly(c) ==
    /\ At(c, "reading")
    /\ ~torn
    /\ \E r \in asked :
          /\ asked' = asked \ {r}
          /\ IF r.id = call[c].id THEN Returns(c, r) ELSE Fails(c)
    /\ UNCHANGED <<nextId, junk, torn, open, begun, slow>>

\* A line that answers a request, the call's own or one of a call that has timed out.
\* Notifications, and errors without a number for lines that are no requests, change nothing.
ReadLine(c) ==
    /\ At(c, "reading")
    /\ ~torn
    /\ \E r \in asked :
          /\ asked' = asked \ {r}
          /\ IF r.id = call[c].id THEN Returns(c, r) ELSE UNCHANGED <<lock, call, failed>>
    /\ UNCHANGED <<nextId, junk, torn, open, begun, slow>>

\* The rest of a line whose beginning is lost is no JSON.
ReadTorn(c) ==
    /\ At(c, "reading")
    /\ torn
    /\ torn' = FALSE
    /\ Fails(c)
    /\ UNCHANGED <<nextId, asked, junk, open, begun, slow>>

\* A call that the server has, or will have, in time, fails only when the server is slow.
CountSlow(c) == IF At(c, "reading") /\ call[c].lost
                  THEN slow' = slow
                  ELSE slow < MaxSlow /\ slow' = slow + 1

TimeoutLocking(c) ==
    /\ At(c, "locking")
    /\ CountSlow(c)
    /\ Fails(c)
    /\ UNCHANGED <<nextId, asked, junk, torn, open, begun>>

\* Some of the line may be written.
TimeoutWriting(c) ==
    /\ At(c, "writing")
    /\ CountSlow(c)
    /\ junk' \in {junk, TRUE}
    /\ Fails(c)
    /\ UNCHANGED <<nextId, asked, torn, open, begun>>

\* Some of a line may be read, into a string that is dropped with the call: the line of an
\* answer, or of a notification or an error without number.
TimeoutReading(c) ==
    /\ At(c, "reading")
    /\ CountSlow(c)
    /\ \/ UNCHANGED <<asked, torn>>
       \/ torn' = TRUE /\ UNCHANGED asked
       \/ ~torn /\ torn' = TRUE /\ \E r \in asked : asked' = asked \ {r}
    /\ Fails(c)
    /\ UNCHANGED <<nextId, junk, open, begun>>

Close == /\ open
         /\ open' = FALSE
         /\ UNCHANGED <<nextId, lock, call, asked, junk, torn, begun, slow, failed>>

\* The write fails, or the end of the stream is read.
Broken(c) ==
    /\ ~open
    /\ At(c, "writing") \/ At(c, "reading")
    /\ Fails(c)
    /\ UNCHANGED <<nextId, asked, junk, torn, open, begun, slow>>

Next == \/ \E c \in Callers :
              \/ Begin(c) \/ Lock(c) \/ Write(c) \/ ReadLine(c) \/ ReadTorn(c)
              \/ TimeoutLocking(c) \/ TimeoutWriting(c) \/ TimeoutReading(c) \/ Broken(c)
        \/ Close

Spec == Init /\ [][Next]_vars

-----------------------------------------------------------------------------
(* Properties.                                                               *)

\* A call that returns an answer returns the one to its own request, whatever answers of
\* calls that have timed out still come (connection.rs:217).
AnswerIsMine == \A c \in Callers : call[c].got # 0 => call[c].got = call[c].nr

\* The lock is with the call that writes or reads, and is free when none does: a call that
\* is dropped anywhere gives it back (connection.rs:198).
LockIsHeld == /\ \A c \in Callers : c \in lock <=> (At(c, "writing") \/ At(c, "reading"))
              /\ \A c, d \in lock : c = d

\* A call that runs out of time spoils at most two more, one whose request runs on from the
\* part it wrote, and one that reads the rest of a line begun by it or by that one; as long
\* as the server keeps the connection, no call fails otherwise (connection.rs:177).
HarmIsBounded == open => failed <= 3 * slow

=============================================================================
