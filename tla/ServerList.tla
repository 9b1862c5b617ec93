------------------------------ MODULE ServerList ------------------------------
(***************************************************************************)
(* The Electrum servers of a session (session.rs): the configured list,    *)
(* the client that is made from it, the lock that calls hold while they    *)
(* use the client, and a send that goes to the next server when a server   *)
(* does not find its transactions.                                         *)
(*                                                                         *)
(* The lock of the client is tokio's RwLock, whose waiters are served in   *)
(* the order in which they came.  The lock of the list is held for a       *)
(* moment only.  What a call does with the client is left out, but for the *)
(* way it ends.                                                            *)
(***************************************************************************)
EXTENDS Naturals, Sequences, FiniteSets, SequencesExt

CONSTANTS
    Users,      \* threads that make calls that use the client
    Senders,    \* threads that send
    Setters,    \* threads that set the list
    Default,    \* the list of a new session
    Lists,      \* lists that the application sets
    Parses(_)   \* whether the address of a server can be parsed

ASSUME ServerAssumption ==
    /\ Default # <<>> /\ \A i \in 1 .. Len(Default) : Parses(Default[i])
    /\ \A list \in Lists \cup {Default} : list \in Seq(ToSet(list))

Callers == Users \cup Senders \cup Setters

VARIABLES
    servers,    \* electrum_servers
    backend,    \* the list that the client was made from
    readers,    \* callers that hold the client's lock, to read
    hung,       \* those of them that wait for a server that is silent
    queue,      \* callers that wait for it
    call,       \* the call of each caller
    mixed       \* the last set failed, or another ran beside it

vars == <<servers, backend, readers, hung, queue, call, mixed>>

Idle == [pc |-> "idle", kind |-> "use", attempt |-> 0, list |-> <<>>, client |-> <<>>,
         first |-> <<>>, alone |-> TRUE]

RotatedShort(list) == Tail(list)  \* Mutated form: the server is not put back.
Rotated(list) == Append(Tail(list), Head(list))
RotatedBy(list, k) == SubSeq(list, k + 1, Len(list)) \o SubSeq(list, 1, k)
AnyList == UNION {{RotatedBy(l, k) : k \in 0 .. Len(l)} : l \in Lists \cup {Default}}

TypeOK ==
    /\ servers \in AnyList \ {<<>>}
    /\ backend \in AnyList \ {<<>>} /\ \A i \in 1 .. Len(backend) : Parses(backend[i])
    /\ readers \subseteq Callers /\ hung \subseteq readers
    /\ IsInjective(queue) /\ ToSet(queue) \subseteq Callers \ readers
    /\ call \in [Callers ->
          [pc : {"idle", "wait", "using", "rotate", "set", "made", "swap"},
           kind : {"use", "set", "send"}, attempt : 0 .. 3, list : AnyList \cup {<<>>},
           client : AnyList \cup {<<>>}, first : AnyList \cup {<<>>}, alone : BOOLEAN]]
    /\ mixed \in BOOLEAN

Init == /\ servers = Default
        /\ backend = Default
        /\ readers = {}
        /\ hung = {}
        /\ queue = <<>>
        /\ call = [c \in Callers |-> Idle]
        /\ mixed = FALSE

At(c, pc) == call[c].pc = pc
First(c) == queue # <<>> /\ Head(queue) = c

Setting(c) == At(c, "made") \/ At(c, "swap")
\* Nobody is setting the list, and the last who did was alone and had no error.
Settled == ~mixed /\ \A c \in Callers : ~Setting(c)

(***************************************************************************)
(* Calls that use the client.                                              *)
(***************************************************************************)
\* Any call but those that set the list; a send makes up to two attempts.
StartUse(c) ==
    /\ At(c, "idle")
    /\ \E kind \in {k \in {"use", "send"} : c \in IF k = "use" THEN Users ELSE Senders} :
          call' = [call EXCEPT ![c] = [Idle EXCEPT !.pc = "wait", !.kind = kind, !.attempt = 1,
                                                   !.alone = kind = "use" \/ Settled]]
    /\ queue' = Append(queue, c)
    /\ UNCHANGED <<servers, backend, readers, hung, mixed>>

\* Mutated form: readers go before a writer that waits.
EnterBefore(c) ==
    /\ At(c, "wait")
    /\ readers' = readers \cup {c}
    /\ queue' = SelectSeq(queue, LAMBDA d : d # c)
    /\ call' = [call EXCEPT ![c].pc = "using", ![c].client = backend]
    /\ UNCHANGED <<servers, backend, hung, mixed>>
Enter(c) ==
    /\ At(c, "wait")
    /\ First(c)
    /\ readers' = readers \cup {c}
    /\ queue' = Tail(queue)
    /\ call' = [call EXCEPT ![c].pc = "using", ![c].client = backend]
    /\ UNCHANGED <<servers, backend, hung, mixed>>

Leave(c) ==
    /\ At(c, "using") /\ c \notin hung
    /\ readers' = readers \ {c}
    /\ call' = [call EXCEPT ![c] = Idle]
    /\ UNCHANGED <<servers, backend, hung, queue, mixed>>

\* A call reconnects to a server that is silent: nothing limits the time that it waits.
Hang(c) ==
    /\ At(c, "using")
    /\ hung' = hung \cup {c}
    /\ UNCHANGED <<servers, backend, readers, queue, call, mixed>>

\* The server lets it go on, or closes the connection; or the timeout of a sync ends.
Wake(c) ==
    /\ c \in hung
    /\ hung' = hung \ {c}
    /\ UNCHANGED <<servers, backend, readers, queue, call, mixed>>

\* The first attempt of a send fails to look up a transaction: the next server is tried.
LookupFails(c) ==
    /\ At(c, "using") /\ c \notin hung
    /\ call[c].kind = "send" /\ call[c].attempt = 1
    /\ readers' = readers \ {c}
    /\ call' = [call EXCEPT ![c] = [@ EXCEPT !.pc = "rotate", !.first = call[c].client,
                                             !.client = <<>>]]
    /\ UNCHANGED <<servers, backend, hung, queue, mixed>>

\* Before the second attempt the coins are asked for once more.
AskedAgain(c) ==
    /\ At(c, "using") /\ c \notin hung
    /\ call[c].attempt = 2
    /\ readers' = readers \ {c}
    /\ queue' = Append(queue, c)
    /\ call' = [call EXCEPT ![c] = [@ EXCEPT !.pc = "wait", !.attempt = 3, !.client = <<>>]]
    /\ UNCHANGED <<servers, backend, hung, mixed>>

(***************************************************************************)
(* Setting the list.                                                       *)
(***************************************************************************)
\* An empty list is refused before anything is stored.
StartSet(c) ==
    /\ At(c, "idle")
    /\ \E list \in Lists \ {<<>>} :
          call' = [call EXCEPT ![c] = [Idle EXCEPT !.pc = "set", !.kind = "set", !.list = list]]
    /\ UNCHANGED <<servers, backend, readers, hung, queue, mixed>>

\* The list is read, and set with its first server last; a list of one is left alone.
RotateKeeping(c) ==               \* Mutated form: the rotated list is not kept.
    /\ At(c, "rotate")
    /\ call' = [call EXCEPT ![c] = [@ EXCEPT !.pc = "set", !.list = servers]]
    /\ UNCHANGED <<servers, backend, readers, hung, queue, mixed>>
Rotate(c) ==
    /\ At(c, "rotate")
    /\ IF Len(servers) > 1
          THEN /\ call' = [call EXCEPT ![c] = [@ EXCEPT !.pc = "set", !.list = Rotated(servers)]]
               /\ UNCHANGED queue
          ELSE /\ call' = [call EXCEPT ![c].pc = "wait", ![c].attempt = 2]
               /\ queue' = Append(queue, c)
    /\ UNCHANGED <<servers, backend, readers, hung, mixed>>

\* Others touch the list during the sends that are under way.
Touched(c) == [d \in Callers |-> IF d = c \/ call[d].kind # "send" THEN call[d]
                                 ELSE [call[d] EXCEPT !.alone = FALSE]]

StoreList(c) ==
    /\ At(c, "set")
    /\ servers' = call[c].list
    /\ mixed' = \E d \in Callers \ {c} : Setting(d)
    /\ call' = [Touched(c) EXCEPT ![c].pc = "made"]
    /\ UNCHANGED <<backend, readers, hung, queue>>

\* ElectrumLightClient::new parses every address, before the lock is asked for.
MakeClient(c) ==
    /\ At(c, "made")
    /\ IF \A i \in 1 .. Len(call[c].list) : Parses(call[c].list[i])
          THEN /\ call' = [call EXCEPT ![c].pc = "swap"]
               /\ queue' = Append(queue, c)
               /\ UNCHANGED mixed
          ELSE /\ call' = [call EXCEPT ![c] = Idle]
               /\ mixed' = TRUE
               /\ UNCHANGED queue
    /\ UNCHANGED <<servers, backend, readers, hung>>

\* The client is replaced when the calls that use it have ended; a send goes on.
Continue(c) ==
    IF call[c].kind = "set"
    THEN /\ call' = [call EXCEPT ![c] = Idle]
         /\ queue' = Tail(queue)
    ELSE /\ call' = [call EXCEPT ![c] = [@ EXCEPT !.pc = "wait", !.attempt = 2, !.list = <<>>]]
         /\ queue' = Append(Tail(queue), c)
\* Mutated form: the client is kept.
SwapKeeping(c) == /\ At(c, "swap")
                  /\ First(c)
                  /\ readers = {}
                  /\ Continue(c)
                  /\ UNCHANGED <<servers, backend, readers, hung, mixed>>
Swap(c) == /\ At(c, "swap")
           /\ First(c)
           /\ readers = {}
           /\ backend' = call[c].list
           /\ Continue(c)
           /\ UNCHANGED <<servers, readers, hung, mixed>>

Step(c) == \/ Enter(c) \/ Leave(c) \/ LookupFails(c) \/ AskedAgain(c)
           \/ Rotate(c) \/ StoreList(c) \/ MakeClient(c) \/ Swap(c)
Next == \/ \E c \in Users \cup Senders : StartUse(c)
        \/ \E c \in Setters : StartSet(c)
        \/ \E c \in Callers : Step(c) \/ Hang(c) \/ Wake(c)

\* A call that does not hang ends in time, since every request of it does; the lock is given
\* when it is due.
Spec == Init /\ [][Next]_vars /\ \A c \in Callers : WF_vars(Step(c))

(***************************************************************************)
(* Properties.                                                             *)
(***************************************************************************)

\* When nobody sets the list, and the last who did was alone and had no error, the client
\* is made of the list that is shown as configured (session.rs:320).
ClientIsOfList == Settled => backend = servers

\* The second attempt of a send goes to another server than the first, if there is one and
\* nobody else has touched the list since the send began (session.rs:242).
RetryAsksAnother ==
    \A c \in readers : call[c].attempt > 1 /\ call[c].alone /\ Len(call[c].first) > 1 =>
                          Head(call[c].client) # Head(call[c].first)

Waits(c) == At(c, "wait") \/ At(c, "swap")

\* c is, or is behind, a set that waits for a call that hangs.
WaitsForHung(c) ==
    /\ hung # {}
    /\ \E i, j \in 1 .. Len(queue) : i <= j /\ queue[j] = c /\ At(queue[i], "swap")

\* Whoever waits for the client gets it, but for a set that waits for a call that hangs and
\* whoever comes after it: calls that come one after another do not keep a set waiting for
\* ever, nor sets a call, nor does a call that hangs keep other calls from the client
\* (session.rs:321).
EveryoneGetsTheClient == \A c \in Callers : Waits(c) ~> ~Waits(c) \/ WaitsForHung(c)

\* Everyone gets the client, whatever the servers do.  Not so: ServerList_hung.cfg.
EveryoneAlwaysGetsTheClient == \A c \in Callers : Waits(c) ~> ~Waits(c)

\* Whatever fails and whoever else sets it, the client is of the list that is shown.
ClientIsAlwaysOfList == (\A c \in Callers : ~Setting(c)) => backend = servers
=============================================================================
