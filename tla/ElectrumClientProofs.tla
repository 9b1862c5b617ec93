------------------------- MODULE ElectrumClientProofs -------------------------
(***************************************************************************)
(* What holds of the calls on the Electrum servers for every number of     *)
(* callers, servers and retries.                                           *)
(*                                                                         *)
(* A step of a call replaces the record of that call.  What each step does *)
(* to the record is stated once, in the lemmas that follow the types, and  *)
(* the invariants are proved from these.                                   *)
(***************************************************************************)
EXTENDS ElectrumClient, TLAPS

\* How many requests a call has made, by where it is: the first, one for each try of the
\* backoff, and one after failing over.
Asks(k) ==
  /\ k.pc = "idle" => k.asked = 0
  /\ k.mode \in {"first", "once"} /\ k.pc \in {"ensure", "connect", "greet"} => k.asked = 0
  /\ k.mode \in {"first", "once"} => k.asked <= 1
  /\ k.mode = "backoff" => k.tries < Retries
  /\ k.mode = "backoff" /\ k.pc \in {"ensure", "connect", "greet"} => k.asked <= k.tries + 1
  /\ k.mode = "backoff" => k.asked <= k.tries + 2
  /\ k.mode = "last" => k.pc \in {"connect", "greet", "rpc"}
  /\ k.mode = "last" /\ k.pc # "rpc" => k.asked <= Retries + 1

Good == {k \in CallStates : Asks(k)}
AskInv == TypeOK /\ call \in [Callers -> Good]

-----------------------------------------------------------------------------
(* Servers and connections.                                                *)

LEMMA SizeIsPositive == N \in Nat /\ N > 0 /\ Retries \in Nat /\ Retries > 0 /\ 0 \in Servers
  BY ClientAssumption DEF Servers

\* Counting on in a circle stays among the servers.
LEMMA CircleStays == ASSUME NEW i \in Nat PROVE i % N \in Servers
  BY SizeIsPositive DEF Servers

LEMMA AfterIsServer == ASSUME NEW i \in Nat PROVE After(i) \in Servers
<1>1. i + 1 \in Nat
  OBVIOUS
<1> QED
  BY <1>1, CircleStays DEF After

LEMMA CandidateIsServer ==
  ASSUME TypeOK, NEW c \in Callers
  PROVE  Candidate(c) \in Servers
<1>1. call[c].start + call[c].offset \in Nat
  BY SizeIsPositive DEF TypeOK, CallStates, Servers
<1> QED
  BY <1>1, CircleStays DEF Candidate

LEMMA ConnectionTypes ==
  /\ None \in Connections
  /\ \A s \in Servers : To(s) \in Connections
  /\ \A k \in Connections : \A s \in Servers : Broken(k, s) \in Connections
<1>1. None \in Connections
  BY SizeIsPositive DEF None, Connections
<1>2. ASSUME NEW s \in Servers PROVE To(s) \in Connections
  BY DEF To, Connections
<1>3. ASSUME NEW k \in Connections, NEW s \in Servers PROVE Broken(k, s) \in Connections
  BY DEF Broken, Connections
<1> QED
  BY <1>1, <1>2, <1>3

-----------------------------------------------------------------------------
(* What each step makes of a call.                                         *)

LEMMA QuietIsGood == Quiet \in CallStates /\ Asks(Quiet)
<1>1. Quiet \in CallStates
  BY SizeIsPositive, ConnectionTypes DEF Quiet, CallStates, CallKinds, Results
<1>2. Asks(Quiet)
  BY DEF Quiet, Asks
<1> QED
  BY <1>1, <1>2

LEMMA Began ==
  ASSUME NEW kind \in CallKinds, NEW mode \in {"first", "backoff", "once"},
         NEW from \in Servers, NEW owed \in {"nothing", "answer", "search"}
  PROVE  [Quiet EXCEPT !.pc = "ensure", !.kind = kind, !.mode = mode, !.from = from,
                       !.owed = owed] \in CallStates
  BY QuietIsGood DEF CallStates

LEMMA Returned ==
  ASSUME NEW result \in Results, NEW owed \in {"nothing", "answer", "search"}
  PROVE  [Quiet EXCEPT !.result = result, !.owed = owed] \in CallStates
  BY QuietIsGood DEF CallStates

LEMMA Paused == [Quiet EXCEPT !.result = "paused"] \in CallStates
  BY QuietIsGood DEF CallStates, Results

LEMMA WentOn ==
  ASSUME NEW from \in Servers, NEW attempt \in Servers,
         NEW owed \in {"nothing", "answer", "search"}
  PROVE  [Quiet EXCEPT !.pc = "ensure", !.kind = "lookup", !.from = from,
                       !.attempt = attempt, !.owed = owed] \in CallStates
  BY QuietIsGood DEF CallStates, CallKinds

LEMMA Connecting ==
  ASSUME NEW k \in CallStates, NEW start \in Servers
  PROVE  [k EXCEPT !.pc = "connect", !.start = start, !.offset = 0] \in CallStates
  BY SizeIsPositive DEF CallStates

LEMMA Connected ==
  ASSUME NEW k \in CallStates, NEW conn \in Connections
  PROVE  [k EXCEPT !.pc = "greet", !.conn = conn, !.start = 0, !.offset = 0] \in CallStates
  BY SizeIsPositive DEF CallStates

LEMMA TookConnection ==
  ASSUME NEW k \in CallStates, NEW conn \in Connections
  PROVE  [k EXCEPT !.conn = conn] \in CallStates
  BY DEF CallStates

LEMMA Asked ==
  ASSUME NEW k \in CallStates, k.asked <= Retries + 1
  PROVE  /\ Asking(k) = [k EXCEPT !.pc = "rpc", !.asked = k.asked + 1]
         /\ Asking(k) \in CallStates
<1>0. k.asked \in 0 .. Retries + 2
  BY DEF CallStates
<1>1. k.asked + 1 \in 0 .. Retries + 2 /\ k.asked < Retries + 3
  BY <1>0, SizeIsPositive
<1>2. Asking(k) = [k EXCEPT !.pc = "rpc", !.asked = k.asked + 1]
  BY <1>1 DEF Asking
<1>3. ASSUME NEW n \in 0 .. Retries + 2 PROVE [k EXCEPT !.pc = "rpc", !.asked = n] \in CallStates
  BY DEF CallStates
<1> QED
  BY <1>1, <1>2, <1>3

LEMMA Refused ==
  ASSUME NEW k \in CallStates, NEW offset \in Servers
  PROVE  [k EXCEPT !.offset = offset] \in CallStates
  BY DEF CallStates

LEMMA Backing ==
  ASSUME NEW k \in CallStates, NEW tries \in 0 .. Retries
  PROVE  /\ [k EXCEPT !.pc = "ensure", !.mode = "backoff", !.tries = tries] \in CallStates
         /\ [k EXCEPT !.pc = "ensure", !.tries = tries] \in CallStates
  BY DEF CallStates

LEMMA Dropping ==
  ASSUME NEW k \in CallStates, NEW move \in BOOLEAN
  PROVE  [k EXCEPT !.pc = "drop", !.move = move] \in CallStates
  BY DEF CallStates

LEMMA FailedOver ==
  ASSUME NEW k \in CallStates, NEW start \in Servers
  PROVE  [k EXCEPT !.pc = "connect", !.mode = "last", !.start = start, !.offset = 0,
                   !.move = FALSE] \in CallStates
  BY SizeIsPositive DEF CallStates

LEMMA Unsettled ==
  ASSUME NEW k \in CallStates, NEW conn \in Connections
  PROVE  [k EXCEPT !.conn = conn, !.owed = "nothing"] \in CallStates
  BY DEF CallStates

\* What a call is about stays.
Same(j, k) == j.kind = k.kind /\ j.from = k.from /\ j.attempt = k.attempt /\ j.owed = k.owed
Others(c) == \A d \in Callers \ {c} : call'[d] = call[d]

LEMMA BecomesOne ==
  ASSUME AskInv, NEW c \in Callers, NEW j, Becomes(c, j)
  PROVE  call'[c] = j /\ Others(c)
  BY DEF AskInv, Becomes, Others

LEMMA CallIsGood ==
  ASSUME AskInv, NEW c \in Callers
  PROVE  call[c] \in CallStates /\ Asks(call[c]) /\ call[c].asked \in Nat /\ call[c].tries \in Nat
<1>1. call[c] \in CallStates /\ Asks(call[c])
  BY DEF AskInv, Good
<1> QED
  BY <1>1, SizeIsPositive DEF CallStates

LEMMA BeginDoes ==
  ASSUME AskInv, NEW c \in Callers, NEW kind \in Kinds, Begin(c, kind)
  PROVE  /\ Others(c) /\ call'[c] \in Good
         /\ \/ call'[c].pc = "idle" /\ call'[c].owed = "nothing" /\ call'[c].mode = "first"
            \/ /\ call'[c].pc = "ensure" /\ call'[c].kind = kind /\ call'[c].owed = Owed(kind)
               /\ call'[c].mode = FirstMode(kind) /\ call'[c].attempt = 0
               /\ kind = "lookup" => call'[c].from = active
<1>1. kind \in CallKinds
  BY ClientAssumption
<1>2. CASE cooling /\ kind \in {"gated", "status"}
  <2> DEFINE j == [Quiet EXCEPT !.result = "paused"]
  <2>1. Becomes(c, j)
    BY <1>2 DEF Begin
  <2>2. j \in CallStates /\ j.pc = "idle" /\ j.owed = "nothing" /\ j.asked = 0 /\ j.mode = "first"
    BY Paused DEF Quiet
  <2> HIDE DEF j
  <2>3. call'[c] = j /\ Others(c)
    BY <2>1, BecomesOne
  <2> QED
    BY <2>2, <2>3 DEF Good, Asks
<1>3. CASE ~(cooling /\ kind \in {"gated", "status"})
  <2> DEFINE mode == FirstMode(kind)
             from == IF kind = "lookup" THEN active ELSE 0
             owed == Owed(kind)
             j == [Quiet EXCEPT !.pc = "ensure", !.kind = kind, !.mode = mode, !.from = from,
                                !.owed = owed]
  <2>1. Becomes(c, j)
    BY <1>3 DEF Begin
  <2>2. mode \in {"first", "backoff", "once"}
    BY DEF FirstMode
  <2>3. from \in Servers
    BY SizeIsPositive DEF AskInv, TypeOK
  <2>4. owed \in {"nothing", "answer", "search"}
    BY DEF Owed
  <2> HIDE DEF mode, from, owed
  <2>5. j \in CallStates
    BY <1>1, <2>2, <2>3, <2>4, Began
  <2>6. /\ j.pc = "ensure" /\ j.asked = 0 /\ j.tries = 0 /\ j.kind = kind /\ j.mode = mode
        /\ j.from = from /\ j.owed = owed /\ j.attempt = 0
    BY DEF Quiet
  <2> HIDE DEF j
  <2>7. call'[c] = j /\ Others(c)
    BY <2>1, BecomesOne
  <2>8. Asks(j)
    BY <2>2, <2>6, SizeIsPositive DEF Asks
  <2> QED
    BY <2>5, <2>6, <2>7, <2>8 DEF Good, mode, from, owed
<1> QED
  BY <1>2, <1>3

LEMMA ReturnsDoes ==
  ASSUME AskInv, NEW c \in Callers, NEW result \in Results, Returns(c, result)
  PROVE  /\ Others(c) /\ call'[c] \in Good
         /\ call'[c].pc = "idle" /\ call'[c].mode = "first" /\ call'[c].result = result
         /\ call'[c].owed = call[c].owed
<1> DEFINE owed == call[c].owed
           j == [Quiet EXCEPT !.result = result, !.owed = owed]
<1>1. owed \in {"nothing", "answer", "search"}
  BY CallIsGood DEF CallStates
<1>2. Becomes(c, j)
  BY DEF Returns
<1> HIDE DEF owed
<1>3. j \in CallStates
  BY <1>1, Returned
<1>4. /\ j.pc = "idle" /\ j.mode = "first" /\ j.result = result /\ j.owed = owed /\ j.asked = 0
      /\ j.tries = 0
  BY DEF Quiet
<1> HIDE DEF j
<1>5. call'[c] = j /\ Others(c)
  BY <1>2, BecomesOne
<1> QED
  BY <1>3, <1>4, <1>5 DEF Good, Asks, owed

LEMMA EnsureDoes ==
  ASSUME AskInv, NEW c \in Callers, Ensure(c)
  PROVE  /\ Others(c) /\ call'[c] \in Good
         /\ Same(call'[c], call[c]) /\ call'[c].mode = call[c].mode
         /\ IF connection.none
              THEN call'[c].pc = "connect" /\ call'[c].start = active /\ call'[c].offset = 0
              ELSE call'[c].pc = "rpc" /\ call'[c].conn = connection
<1> DEFINE k == call[c]
<1>1. k \in CallStates /\ Asks(k) /\ k.pc = "ensure" /\ k.asked \in Nat /\ k.tries \in Nat
  BY CallIsGood DEF Ensure
<1>2. active \in Servers /\ connection \in Connections
  BY DEF AskInv, TypeOK
<1>3. CASE connection.none
  <2> DEFINE j == [k EXCEPT !.pc = "connect", !.start = active, !.offset = 0]
  <2>1. Becomes(c, j)
    BY <1>3 DEF Ensure
  <2> HIDE DEF k
  <2>2. j \in CallStates
    BY <1>1, <1>2, Connecting
  <2>3. /\ j.pc = "connect" /\ j.start = active /\ j.offset = 0 /\ Same(j, k) /\ j.mode = k.mode
        /\ j.asked = k.asked /\ j.tries = k.tries
    BY <1>1 DEF CallStates, Same
  <2> HIDE DEF j
  <2>4. call'[c] = j /\ Others(c)
    BY <2>1, BecomesOne
  <2>5. Asks(j)
    BY <1>1, <2>3 DEF Asks
  <2> QED
    BY <1>3, <2>2, <2>3, <2>4, <2>5 DEF Good, k
<1>4. CASE ~connection.none
  <2> DEFINE i == [k EXCEPT !.conn = connection]
             j == Asking(i)
  <2>1. Becomes(c, j)
    BY <1>4 DEF Ensure
  <2> HIDE DEF k
  <2>2. i \in CallStates
    BY <1>1, <1>2, TookConnection
  <2>3. i.asked = k.asked /\ i.conn = connection /\ Same(i, k) /\ i.mode = k.mode /\ i.tries = k.tries
    BY <1>1 DEF CallStates, Same
  <2>4. k.asked <= Retries + 1
    BY <1>1, SizeIsPositive DEF Asks, CallStates
  <2> HIDE DEF i
  <2>5. j = [i EXCEPT !.pc = "rpc", !.asked = i.asked + 1] /\ j \in CallStates
    BY <2>2, <2>3, <2>4, Asked
  <2>6. /\ j.pc = "rpc" /\ j.asked = k.asked + 1 /\ j.conn = connection /\ Same(j, k)
        /\ j.mode = k.mode /\ j.tries = k.tries
    BY <2>2, <2>3, <2>5 DEF CallStates, Same
  <2> HIDE DEF j
  <2>7. call'[c] = j /\ Others(c)
    BY <2>1, BecomesOne
  <2>8. Asks(j)
    BY <1>1, <2>6 DEF Asks, CallStates
  <2> QED
    BY <1>4, <2>5, <2>6, <2>7, <2>8 DEF Good, k
<1> QED
  BY <1>3, <1>4

LEMMA ConnectsDoes ==
  ASSUME AskInv, NEW c \in Callers, Connects(c)
  PROVE  /\ Others(c) /\ call'[c] \in Good
         /\ Same(call'[c], call[c]) /\ call'[c].mode = call[c].mode
         /\ call'[c].pc = "greet" /\ call'[c].conn = To(Candidate(c))
<1> DEFINE k == call[c]
           conn == To(Candidate(c))
           j == [k EXCEPT !.pc = "greet", !.conn = conn, !.start = 0, !.offset = 0]
<1>1. k \in CallStates /\ Asks(k) /\ k.pc = "connect" /\ k.asked \in Nat /\ k.tries \in Nat
  BY CallIsGood DEF Connects
<1>2. conn \in Connections
  BY CandidateIsServer, ConnectionTypes DEF AskInv
<1>3. Becomes(c, j)
  BY DEF Connects
<1> HIDE DEF k, conn
<1>4. j \in CallStates
  BY <1>1, <1>2, Connected
<1>5. /\ j.pc = "greet" /\ j.conn = conn /\ Same(j, k) /\ j.mode = k.mode /\ j.asked = k.asked
      /\ j.tries = k.tries
  BY <1>1 DEF CallStates, Same
<1> HIDE DEF j
<1>6. call'[c] = j /\ Others(c)
  BY <1>3, BecomesOne
<1>7. Asks(j)
  BY <1>1, <1>5 DEF Asks
<1> QED
  BY <1>4, <1>5, <1>6, <1>7 DEF Good, k, conn

LEMMA GreetedDoes ==
  ASSUME AskInv, NEW c \in Callers, Greeted(c)
  PROVE  /\ Others(c) /\ call'[c] \in Good
         /\ Same(call'[c], call[c]) /\ call'[c].mode = call[c].mode
         /\ call'[c].pc = "rpc" /\ call'[c].conn = call[c].conn
<1> DEFINE k == call[c]
           j == Asking(k)
<1>1. k \in CallStates /\ Asks(k) /\ k.pc = "greet" /\ k.asked \in Nat /\ k.tries \in Nat
  BY CallIsGood DEF Greeted
<1>2. Becomes(c, j)
  BY DEF Greeted
<1> HIDE DEF k
<1>3. k.asked <= Retries + 1
  <2>1. k.mode \in {"first", "backoff", "last", "once"}
    BY <1>1 DEF CallStates
  <2> QED
    BY <1>1, <2>1, SizeIsPositive DEF Asks
<1>4. j = [k EXCEPT !.pc = "rpc", !.asked = k.asked + 1] /\ j \in CallStates
  BY <1>1, <1>3, Asked
<1>5. /\ j.pc = "rpc" /\ j.asked = k.asked + 1 /\ j.conn = k.conn /\ Same(j, k)
      /\ j.mode = k.mode /\ j.tries = k.tries
  BY <1>1, <1>4 DEF CallStates, Same
<1> HIDE DEF j
<1>6. call'[c] = j /\ Others(c)
  BY <1>2, BecomesOne
<1>7. Asks(j)
  BY <1>1, <1>5 DEF Asks
<1> QED
  BY <1>4, <1>5, <1>6, <1>7 DEF Good, k

LEMMA ConnectRefusedDoes ==
  ASSUME AskInv, NEW c \in Callers, ConnectRefused(c)
  PROVE  /\ Others(c) /\ call'[c] \in Good
         /\ Same(call'[c], call[c]) /\ call'[c].mode = call[c].mode
         /\ call'[c].pc = "connect" /\ call'[c].start = call[c].start
         /\ call'[c].offset = call[c].offset + 1
<1> DEFINE k == call[c]
           offset == k.offset + 1
           j == [k EXCEPT !.offset = offset]
<1>1. k \in CallStates /\ Asks(k) /\ k.pc = "connect" /\ k.asked \in Nat /\ k.tries \in Nat
  BY CallIsGood DEF ConnectRefused
<1>2. offset \in Servers
  <2>1. k.offset \in 0 .. N - 1
    BY <1>1 DEF CallStates, Servers
  <2>2. k.offset + 1 # N
    BY DEF ConnectRefused, TriedAll
  <2> QED
    BY <2>1, <2>2, SizeIsPositive DEF Servers
<1>3. Becomes(c, j)
  BY DEF ConnectRefused
<1> HIDE DEF k, offset
<1>4. j \in CallStates
  BY <1>1, <1>2, Refused
<1>5. /\ j.pc = k.pc /\ j.start = k.start /\ j.offset = offset /\ Same(j, k) /\ j.mode = k.mode
      /\ j.asked = k.asked /\ j.tries = k.tries
  BY <1>1 DEF CallStates, Same
<1> HIDE DEF j
<1>6. call'[c] = j /\ Others(c)
  BY <1>3, BecomesOne
<1>7. Asks(j)
  BY <1>1, <1>5 DEF Asks
<1> QED
  BY <1>1, <1>4, <1>5, <1>6, <1>7 DEF Good, k, offset

LEMMA BackoffBeginsDoes ==
  ASSUME AskInv, NEW c \in Callers, BackoffBegins(c)
  PROVE  /\ Others(c) /\ call'[c] \in Good
         /\ Same(call'[c], call[c]) /\ call'[c].mode = "backoff" /\ call'[c].pc = "ensure"
<1> DEFINE k == call[c]
           j == [k EXCEPT !.pc = "ensure", !.mode = "backoff", !.tries = 0]
<1>1. k \in CallStates /\ Asks(k) /\ k.mode = "first" /\ k.asked \in Nat /\ k.tries \in Nat
  BY CallIsGood DEF BackoffBegins
<1>2. Becomes(c, j)
  BY DEF BackoffBegins
<1> HIDE DEF k
<1>3. j \in CallStates
  <2>1. 0 \in 0 .. Retries
    BY SizeIsPositive
  <2> QED
    BY <1>1, <2>1, Backing
<1>4. /\ j.pc = "ensure" /\ Same(j, k) /\ j.mode = "backoff" /\ j.asked = k.asked /\ j.tries = 0
  BY <1>1 DEF CallStates, Same
<1> HIDE DEF j
<1>5. call'[c] = j /\ Others(c)
  BY <1>2, BecomesOne
<1>6. Asks(j)
  BY <1>1, <1>4, SizeIsPositive DEF Asks
<1> QED
  BY <1>3, <1>4, <1>5, <1>6 DEF Good, k

LEMMA BacksOffDoes ==
  ASSUME AskInv, NEW c \in Callers, BacksOff(c)
  PROVE  /\ Others(c) /\ call'[c] \in Good
         /\ \/ /\ call'[c].pc = "idle" /\ call'[c].mode = "first" /\ call'[c].result = "limited"
               /\ call'[c].owed = call[c].owed
            \/ /\ call'[c].pc = "ensure" /\ Same(call'[c], call[c])
               /\ call'[c].mode = call[c].mode
<1> DEFINE k == call[c]
           tries == k.tries + 1
           j == [k EXCEPT !.pc = "ensure", !.tries = tries]
<1>1. k \in CallStates /\ Asks(k) /\ k.mode = "backoff" /\ k.asked \in Nat /\ k.tries \in Nat
  BY CallIsGood DEF BacksOff
<1>2. k.tries < Retries /\ k.asked <= k.tries + 2
  BY <1>1 DEF Asks
<1>3. CASE TriesNow(c) = Retries
  <2>1. Returns(c, "limited") /\ "limited" \in Results
    BY <1>3 DEF BacksOff, Results
  <2> QED
    BY <2>1, ReturnsDoes
<1>4. CASE TriesNow(c) # Retries
  <2>1. tries \in 0 .. Retries /\ tries < Retries
    BY <1>1, <1>2, <1>4, SizeIsPositive DEF TriesNow
  <2>2. Becomes(c, j)
    BY <1>4 DEF BacksOff, TriesNow
  <2>3. k.asked <= tries + 1
    BY <1>1, <1>2
  <2> HIDE DEF k, tries
  <2>4. j \in CallStates
    BY <1>1, <2>1, Backing
  <2>5. j.pc = "ensure" /\ Same(j, k) /\ j.mode = k.mode /\ j.asked = k.asked /\ j.tries = tries
    BY <1>1 DEF CallStates, Same
  <2> HIDE DEF j
  <2>6. call'[c] = j /\ Others(c)
    BY <2>2, BecomesOne
  <2>7. Asks(j)
    BY <1>1, <2>1, <2>3, <2>5 DEF Asks
  <2> QED
    BY <2>4, <2>5, <2>6, <2>7 DEF Good, k
<1> QED
  BY <1>3, <1>4

LEMMA TransportFailsDoes ==
  ASSUME AskInv, NEW c \in Callers, TransportFails(c)
  PROVE  /\ Others(c) /\ call'[c] \in Good
         /\ Same(call'[c], call[c]) /\ call'[c].mode = call[c].mode
         /\ call'[c].pc = "drop" /\ call'[c].move = (failures > 0)
<1> DEFINE k == call[c]
           move == failures > 0
           j == [k EXCEPT !.pc = "drop", !.move = move]
<1>1. k \in CallStates /\ Asks(k) /\ k.mode \in {"first", "backoff"} /\ k.asked \in Nat
      /\ k.tries \in Nat
  BY CallIsGood DEF TransportFails, Retryable
<1>2. move \in BOOLEAN
  OBVIOUS
<1>3. Becomes(c, j)
  BY DEF TransportFails
<1> HIDE DEF k, move
<1>4. j \in CallStates
  BY <1>1, <1>2, Dropping
<1>5. /\ j.pc = "drop" /\ j.move = move /\ Same(j, k) /\ j.mode = k.mode
      /\ j.asked = k.asked /\ j.tries = k.tries
  BY <1>1 DEF CallStates, Same
<1> HIDE DEF j
<1>6. call'[c] = j /\ Others(c)
  BY <1>3, BecomesOne
<1>7. Asks(j)
  BY <1>1, <1>5 DEF Asks
<1> QED
  BY <1>4, <1>5, <1>6, <1>7 DEF Good, k, move

LEMMA FailsOverDoes ==
  ASSUME AskInv, NEW c \in Callers, FailsOver(c)
  PROVE  /\ Others(c) /\ call'[c] \in Good
         /\ Same(call'[c], call[c]) /\ call'[c].mode = "last"
         /\ call'[c].pc = "connect" /\ call'[c].start = active' /\ call'[c].offset = 0
         /\ active' = (IF call[c].move /\ N > 1 THEN After(active) ELSE active)
         /\ active' \in Servers /\ failures' \in {0, failures}
<1>0. active' = (IF call[c].move /\ N > 1 THEN After(active) ELSE active)
  BY DEF FailsOver
<1>1. active \in Nat /\ active \in Servers
  BY SizeIsPositive DEF AskInv, TypeOK, Servers
<1>2. active' \in Servers
  BY <1>0, <1>1, AfterIsServer
<1>3. PICK start \in Servers : start = active'
  BY <1>2
<1> DEFINE k == call[c]
           j == [k EXCEPT !.pc = "connect", !.mode = "last", !.start = start, !.offset = 0,
                          !.move = FALSE]
<1>4. k \in CallStates /\ Asks(k) /\ k.pc = "drop" /\ k.asked \in Nat /\ k.tries \in Nat
  BY CallIsGood DEF FailsOver
<1>5. Becomes(c, j)
  BY <1>3 DEF FailsOver
<1> HIDE DEF k
<1>6. j \in CallStates
  BY <1>4, FailedOver
<1>7. /\ j.pc = "connect" /\ j.mode = "last" /\ j.start = start /\ j.offset = 0 /\ Same(j, k)
      /\ j.asked = k.asked /\ j.tries = k.tries
  BY <1>4 DEF CallStates, Same
<1> HIDE DEF j
<1>8. call'[c] = j /\ Others(c)
  BY <1>5, BecomesOne
<1>9. Asks(j)
  <2>1. k.mode \in {"first", "backoff", "last", "once"}
    BY <1>4 DEF CallStates
  <2>2. k.asked <= Retries + 1
    BY <1>4, <2>1, SizeIsPositive DEF Asks
  <2> QED
    BY <1>7, <2>2, SizeIsPositive DEF Asks
<1>10. failures' \in {0, failures}
  BY DEF FailsOver
<1> QED
  BY <1>0, <1>2, <1>3, <1>6, <1>7, <1>8, <1>9, <1>10 DEF Good, k

\* The end of a call, or of the attempt of a lookup, with the answer a request had.
LEMMA NextServerDoes ==
  ASSUME AskInv, NEW c \in Callers, NextServer(c)
  PROVE  /\ Others(c) /\ call'[c] \in Good
         /\ call'[c].owed = call[c].owed /\ call'[c].mode = "first"
         /\ active' = After(call[c].from + call[c].attempt) /\ active' \in Servers
         /\ connection' = None
         /\ IF SearchedAll(c)
              THEN call'[c].pc = "idle" /\ call'[c].result = "lookup"
              ELSE /\ call'[c].pc = "ensure" /\ call'[c].kind = "lookup"
                   /\ call'[c].from = call[c].from
                   /\ call'[c].attempt = call[c].attempt + 1
<1>0. /\ call[c].from \in Servers /\ call[c].attempt \in Servers
      /\ call[c].owed \in {"nothing", "answer", "search"}
  BY CallIsGood DEF CallStates
<1>1. active' = After(call[c].from + call[c].attempt) /\ connection' = None
  BY DEF NextServer
<1>2. active' \in Servers
  <2>1. call[c].from + call[c].attempt \in Nat
    BY <1>0, SizeIsPositive DEF Servers
  <2> QED
    BY <1>1, <2>1, AfterIsServer
<1>3. CASE SearchedAll(c)
  <2>1. Returns(c, "lookup") /\ "lookup" \in Results
    BY <1>3 DEF NextServer, Results
  <2> QED
    BY <1>1, <1>2, <1>3, <2>1, ReturnsDoes
<1>4. CASE ~SearchedAll(c)
  <2> DEFINE from == call[c].from
             attempt == call[c].attempt + 1
             owed == call[c].owed
             j == [Quiet EXCEPT !.pc = "ensure", !.kind = "lookup", !.from = from,
                                !.attempt = attempt, !.owed = owed]
  <2>1. attempt \in Servers
    BY <1>0, <1>4, SizeIsPositive DEF SearchedAll, Servers
  <2>2. Becomes(c, j)
    BY <1>4 DEF NextServer
  <2> HIDE DEF from, attempt, owed
  <2>3. j \in CallStates
    BY <1>0, <2>1, WentOn DEF from, owed
  <2>4. /\ j.pc = "ensure" /\ j.kind = "lookup" /\ j.from = from /\ j.attempt = attempt
        /\ j.owed = owed /\ j.mode = "first" /\ j.asked = 0
    BY DEF Quiet
  <2> HIDE DEF j
  <2>5. call'[c] = j /\ Others(c)
    BY <2>2, BecomesOne
  <2>6. Asks(j)
    BY <2>4 DEF Asks
  <2> QED
    BY <1>1, <1>2, <1>4, <2>3, <2>4, <2>5, <2>6 DEF Good, from, attempt, owed
<1> QED
  BY <1>3, <1>4

LEMMA AnswerIsResult == \A c \in Callers : Answer(c) \in Results \ {"none", "paused"}
  BY DEF Answer, Results

LEMMA ErrorEndsDoes ==
  ASSUME AskInv, NEW c \in Callers, ErrorEnds(c)
  PROVE  \E answer \in Results :
           /\ \/ call[c].pc = "rpc" /\ answer = Answer(c) /\ answer # "ok"
              \/ call[c].pc = "connect" /\ AllRefuse(c) /\ answer = "transport"
           /\ Retryable(c) => answer # "transport" /\ ~IsRateLimited(answer)
           /\ Ends(c, answer)
<1> DEFINE answer == IF call[c].pc = "rpc" THEN Answer(c) ELSE "transport"
<1>1. answer \in Results
  BY AnswerIsResult DEF Results
<1>2. /\ Retryable(c) => answer # "transport" /\ ~IsRateLimited(answer)
      /\ Ends(c, answer)
  BY DEF ErrorEnds
<1>3. \/ call[c].pc = "rpc" /\ answer = Answer(c) /\ answer # "ok"
      \/ call[c].pc = "connect" /\ AllRefuse(c) /\ answer = "transport"
  BY DEF ErrorEnds, AllRefuse
<1> QED
  BY <1>1, <1>2, <1>3

\* A change of a server is felt by the calls that are under way.
LEMMA ServerChangesDoes ==
  ASSUME AskInv, NEW s \in Servers, NEW behaviour \in Behaviours, ServerChanges(s, behaviour),
         NEW c \in Callers
  PROVE  /\ call'[c] \in Good
         /\ IF call[c].pc = "idle" THEN call'[c] = call[c]
            ELSE /\ call'[c].owed = "nothing" /\ call'[c].conn = Broken(call[c].conn, s)
                 /\ call'[c].pc = call[c].pc /\ call'[c].mode = call[c].mode
                 /\ call'[c].kind = call[c].kind
<1>1. CASE call[c].pc = "idle"
  <2>1. call'[c] = call[c]
    BY <1>1 DEF ServerChanges
  <2> QED
    BY <1>1, <2>1 DEF AskInv
<1>2. CASE call[c].pc # "idle"
  <2> DEFINE k == call[c]
             conn == Broken(k.conn, s)
             j == [k EXCEPT !.conn = conn, !.owed = "nothing"]
  <2>1. k \in CallStates /\ Asks(k)
    BY CallIsGood
  <2>2. conn \in Connections
    BY <2>1, ConnectionTypes DEF CallStates
  <2>3. call'[c] = j
    BY <1>2 DEF ServerChanges
  <2> HIDE DEF k, conn
  <2>4. j \in CallStates
    BY <2>1, <2>2, Unsettled
  <2>5. /\ j.pc = k.pc /\ j.mode = k.mode /\ j.kind = k.kind /\ j.asked = k.asked
        /\ j.tries = k.tries /\ j.conn = conn /\ j.owed = "nothing"
    BY <2>1 DEF CallStates
  <2> HIDE DEF j
  <2>6. Asks(j)
    BY <2>1, <2>5 DEF Asks
  <2> QED
    BY <1>2, <2>3, <2>4, <2>5, <2>6 DEF Good, k, conn
<1> QED
  BY <1>1, <1>2

-----------------------------------------------------------------------------
(* The types.                                                              *)

LEMMA AskInit == Init => AskInv
<1> SUFFICES ASSUME Init PROVE AskInv
  OBVIOUS
<1>1. call \in [Callers -> Good] /\ call \in [Callers -> CallStates]
  BY QuietIsGood DEF Init, Good
<1>2. serves \in [Servers -> ServerBehaviours]
  BY ClientAssumption DEF Init
<1>3. 0 \in 0 .. 2 /\ 0 \in 0 .. MaxChanges
  BY ClientAssumption
<1> QED
  BY <1>1, <1>2, <1>3, SizeIsPositive, ConnectionTypes DEF Init, AskInv, TypeOK

\* A step of one call that keeps the rest well typed.
LEMMA OneStepTypes ==
  ASSUME AskInv, NEW c \in Callers, NEW j, Becomes(c, j), call'[c] \in Good,
         serves' = serves, active' \in Servers, connection' \in Connections,
         failures' \in 0 .. 2, cooling' \in BOOLEAN, changes' = changes
  PROVE  AskInv'
<1>1. call' \in [Callers -> Good]
  BY BecomesOne DEF AskInv, Becomes
<1>2. call' \in [Callers -> CallStates]
  BY <1>1 DEF Good
<1> QED
  BY <1>1, <1>2 DEF AskInv, TypeOK

LEMMA AskStep == AskInv /\ [Next]_vars => AskInv'
<1> SUFFICES ASSUME AskInv, [Next]_vars PROVE AskInv'
  OBVIOUS
<1>0. /\ active \in Servers /\ connection \in Connections /\ failures \in 0 .. 2
      /\ cooling \in BOOLEAN /\ 0 \in 0 .. 2
  BY DEF AskInv, TypeOK
<1>1. ASSUME NEW c \in Callers, NEW kind \in Kinds, Begin(c, kind) PROVE AskInv'
  <2>1. PICK j : Becomes(c, j)
    BY <1>1 DEF Begin
  <2> QED
    BY <1>0, <1>1, <2>1, BeginDoes, OneStepTypes DEF Begin
<1>2. ASSUME NEW c \in Callers, Ensure(c) PROVE AskInv'
  <2>1. PICK j : Becomes(c, j)
    BY <1>2 DEF Ensure
  <2> QED
    BY <1>0, <1>2, <2>1, EnsureDoes, OneStepTypes DEF Ensure
<1>3. ASSUME NEW c \in Callers, Connects(c) PROVE AskInv'
  <2>1. PICK j : Becomes(c, j)
    BY <1>3 DEF Connects
  <2> QED
    BY <1>0, <1>3, <2>1, ConnectsDoes, OneStepTypes, CandidateIsServer DEF Connects, AskInv
<1>4. ASSUME NEW c \in Callers, Greeted(c) PROVE AskInv'
  <2>1. PICK j : Becomes(c, j)
    BY <1>4 DEF Greeted
  <2>2. call[c].conn \in Connections
    BY CallIsGood DEF CallStates
  <2> QED
    BY <1>0, <1>4, <2>1, <2>2, GreetedDoes, OneStepTypes DEF Greeted
<1>5. ASSUME NEW c \in Callers, ConnectRefused(c) PROVE AskInv'
  <2>1. PICK j : Becomes(c, j)
    BY <1>5 DEF ConnectRefused
  <2> QED
    BY <1>0, <1>5, <2>1, ConnectRefusedDoes, OneStepTypes DEF ConnectRefused
<1>6. ASSUME NEW c \in Callers, AnsweredOk(c) PROVE AskInv'
  <2>1. PICK j : Becomes(c, j)
    BY <1>6 DEF AnsweredOk, Returns
  <2>2. call'[c] \in Good
    BY <1>6, ReturnsDoes DEF AnsweredOk, Results
  <2> QED
    BY <1>0, <1>6, <2>1, <2>2, OneStepTypes DEF AnsweredOk
<1>7. ASSUME NEW c \in Callers, BackoffBegins(c) PROVE AskInv'
  <2>1. PICK j : Becomes(c, j)
    BY <1>7 DEF BackoffBegins
  <2> QED
    BY <1>0, <1>7, <2>1, BackoffBeginsDoes, OneStepTypes DEF BackoffBegins
<1>8. ASSUME NEW c \in Callers, BacksOff(c) PROVE AskInv'
  <2>1. PICK j : Becomes(c, j)
    BY <1>8 DEF BacksOff, Returns
  <2>2. call'[c] \in Good
    BY <1>8, BacksOffDoes
  <2> QED
    BY <1>0, <1>8, <2>1, <2>2, OneStepTypes DEF BacksOff
<1>9. ASSUME NEW c \in Callers, TransportFails(c) PROVE AskInv'
  <2>1. PICK j : Becomes(c, j)
    BY <1>9 DEF TransportFails
  <2>2. call'[c] \in Good
    BY <1>9, TransportFailsDoes
  <2>3. failures' \in 0 .. 2
    BY <1>0, <1>9 DEF TransportFails
  <2> QED
    BY <1>0, <1>9, <2>1, <2>2, <2>3, OneStepTypes DEF TransportFails
<1>10. ASSUME NEW c \in Callers, FailsOver(c) PROVE AskInv'
  <2>1. PICK j : Becomes(c, j)
    BY <1>10, FailsOverDoes DEF FailsOver
  <2>2. connection' \in Connections
    BY <1>10, ConnectionTypes DEF FailsOver, DropConnection
  <2>3. failures' \in 0 .. 2
    BY <1>0, <1>10, FailsOverDoes
  <2> QED
    BY <1>0, <1>10, <2>1, <2>2, <2>3, FailsOverDoes, OneStepTypes DEF FailsOver
<1>11. ASSUME NEW c \in Callers, ErrorEnds(c) PROVE AskInv'
  <2>1. PICK answer \in Results : Ends(c, answer)
    BY <1>11, ErrorEndsDoes
  <2>2. UNCHANGED <<serves, failures, cooling, changes>>
    BY <1>11 DEF ErrorEnds
  <2>3. CASE NextServer(c)
    <3>1. PICK j : Becomes(c, j)
      BY <2>3 DEF NextServer, Returns
    <3> QED
      BY <1>0, <2>2, <2>3, <3>1, NextServerDoes, ConnectionTypes, OneStepTypes
  <2>4. CASE Returns(c, answer) /\ UNCHANGED <<active, connection>>
    <3>1. PICK j : Becomes(c, j)
      BY <2>4 DEF Returns
    <3> QED
      BY <1>0, <2>2, <2>4, <3>1, ReturnsDoes, OneStepTypes
  <2> QED
    BY <2>1, <2>3, <2>4 DEF Ends
<1>12. CASE CooldownEnds
  BY <1>12 DEF CooldownEnds, AskInv, TypeOK
<1>13. ASSUME NEW s \in Servers, NEW behaviour \in Behaviours, ServerChanges(s, behaviour)
       PROVE  AskInv'
  <2>1. \A c \in Callers : call'[c] \in Good
    BY <1>13, ServerChangesDoes
  <2>2. call' \in [Callers -> Good] /\ call' \in [Callers -> CallStates]
    BY <1>13, <2>1 DEF ServerChanges, Good
  <2>3. connection' \in Connections
    BY <1>0, <1>13, ConnectionTypes DEF ServerChanges
  <2>4. serves' \in [Servers -> ServerBehaviours]
    BY <1>13, ClientAssumption DEF ServerChanges, AskInv, TypeOK
  <2>5. changes' \in 0 .. MaxChanges
    <3>1. changes \in 0 .. MaxChanges /\ changes < MaxChanges /\ changes' = changes + 1
      BY <1>13 DEF ServerChanges, AskInv, TypeOK
    <3> QED
      BY <3>1, ClientAssumption
  <2> QED
    BY <1>0, <1>13, <2>2, <2>3, <2>4, <2>5 DEF ServerChanges, AskInv, TypeOK
<1>14. CASE UNCHANGED vars
  BY <1>14 DEF vars, AskInv, TypeOK
<1> QED
  BY <1>1, <1>2, <1>3, <1>4, <1>5, <1>6, <1>7, <1>8, <1>9, <1>10, <1>11, <1>12, <1>13, <1>14
  DEF Next, Step

\* The state keeps its types; among them that no call sends more requests than its retries
\* and one failover allow (manager.rs:182-214).
THEOREM TypeCorrect == Spec => []TypeOK
<1>1. AskInv => TypeOK
  BY DEF AskInv
<1> QED
  BY AskInit, AskStep, <1>1, PTL DEF Spec

-----------------------------------------------------------------------------
(* A server that can be reached answers.                                   *)

\* What keeps the promise of a call to which an answer is owed: all servers that can be
\* reached would give it, those that reconnect has passed cannot be reached, and after
\* failing over the connection is a new one to a server that can.
Expects(k) ==
  /\ k.pc = "idle" => k.result \in {"ok", "paused"}
  /\ k.pc # "idle" =>
       /\ k.kind # "status"
       /\ \E s \in Servers : Answers(s, k.kind)
       /\ \A s \in Servers : Answers(s, k.kind) \/ serves[s] = "dead"
  /\ k.pc = "connect" => \A i \in 0 .. k.offset - 1 : serves[(k.start + i) % N] = "dead"
  /\ k.mode = "last" /\ k.pc \in {"greet", "rpc"} =>
       k.conn.open /\ serves[k.conn.server] # "dead"

\* Only the probe is not retried from the beginning on, and it never fails over.
ModeFits(k) == /\ k.mode = "once" <=> k.pc # "idle" /\ k.kind = "status"
               /\ k.mode = "once" => k.pc # "drop"

Fits(k) == ModeFits(k) /\ (k.owed = "answer" => Expects(k))
AnswerInv == \A c \in Callers : Fits(call[c])

\* Counting from any server comes to every server.
LEMMA CircleReaches ==
  ASSUME NEW start \in Servers, NEW s \in Servers
  PROVE  \E i \in 0 .. N - 1 : (start + i) % N = s
<1>1. start \in 0 .. N - 1 /\ s \in 0 .. N - 1 /\ N \in Nat /\ N > 0
  BY SizeIsPositive DEF Servers
<1>2. CASE start <= s
  <2>1. s - start \in 0 .. N - 1 /\ start + (s - start) = s
    BY <1>1, <1>2
  <2>2. s % N = s
    BY <1>1
  <2> QED
    BY <2>1, <2>2
<1>3. CASE s < start
  <2>1. s + N - start \in 0 .. N - 1 /\ start + (s + N - start) = s + N
    BY <1>1, <1>3
  <2>2. (s + N) % N = s
    BY <1>1
  <2> QED
    BY <2>1, <2>2
<1> QED
  BY <1>1, <1>2, <1>3

\* When reconnect has tried all servers, none can be reached.
LEMMA AllRefuseAllDead ==
  ASSUME AskInv, NEW c \in Callers, AllRefuse(c),
         \A i \in 0 .. call[c].offset - 1 : serves[(call[c].start + i) % N] = "dead"
  PROVE  \A s \in Servers : serves[s] = "dead"
<1> SUFFICES ASSUME NEW s \in Servers PROVE serves[s] = "dead"
  OBVIOUS
<1>1. call[c].start \in Servers /\ call[c].offset \in 0 .. N - 1
  BY CallIsGood DEF CallStates, Servers
<1>2. PICK i \in 0 .. N - 1 : (call[c].start + i) % N = s
  BY <1>1, CircleReaches
<1>3. call[c].offset = N - 1 /\ serves[(call[c].start + call[c].offset) % N] = "dead"
  BY <1>1, SizeIsPositive DEF AllRefuse, TriedAll, Candidate
<1> QED
  BY <1>1, <1>2, <1>3, SizeIsPositive

LEMMA OneStepFits ==
  ASSUME AnswerInv, NEW c \in Callers, Others(c), serves' = serves, Fits(call[c])'
  PROVE  AnswerInv'
<1> SUFFICES ASSUME NEW d \in Callers, d # c PROVE Fits(call[d])'
  BY DEF AnswerInv
<1>1. call'[d] = call[d] /\ Fits(call[d])
  BY DEF Others, AnswerInv
<1> QED
  BY <1>1 DEF Fits, ModeFits, Expects, Answers

LEMMA AnswerStep == AskInv /\ AnswerInv /\ [Next]_vars => AnswerInv'
<1> SUFFICES ASSUME AskInv, AnswerInv, [Next]_vars PROVE AnswerInv'
  OBVIOUS
<1>0. ASSUME NEW c \in Callers
      PROVE  /\ ModeFits(call[c]) /\ (call[c].owed = "answer" => Expects(call[c]))
             /\ call[c].kind \in CallKinds /\ call[c].mode \in {"first", "backoff", "last", "once"}
             /\ Asks(call[c])
  BY CallIsGood DEF AnswerInv, Fits, CallStates
<1>1. ASSUME NEW c \in Callers, NEW kind \in Kinds, Begin(c, kind) PROVE AnswerInv'
  <2>1. serves' = serves
    BY <1>1 DEF Begin
  <2>2. FirstMode(kind) = "once" <=> kind = "status"
    BY DEF FirstMode
  <2>3. FirstMode(kind) # "last"
    BY DEF FirstMode
  <2>4. Owed(kind) = "answer" => /\ kind # "status"
                                 /\ \E s \in Servers : Answers(s, kind)
                                 /\ \A s \in Servers : Answers(s, kind) \/ serves[s] = "dead"
    BY DEF Owed
  <2>5. Fits(call[c])'
    BY <1>1, <2>1, <2>2, <2>3, <2>4, BeginDoes DEF Fits, ModeFits, Expects, Answers
  <2> QED
    BY <1>1, <2>1, <2>5, BeginDoes, OneStepFits
<1>2. ASSUME NEW c \in Callers, Ensure(c) PROVE AnswerInv'
  <2>1. serves' = serves /\ call[c].pc = "ensure"
    BY <1>2 DEF Ensure
  <2>2. call[c].mode # "last"
    BY <1>0, <2>1 DEF Asks
  <2>3. Fits(call[c])'
    BY <1>0, <1>2, <2>1, <2>2, EnsureDoes DEF Fits, ModeFits, Expects, Answers, Same
  <2> QED
    BY <1>2, <2>1, <2>3, EnsureDoes, OneStepFits
<1>3. ASSUME NEW c \in Callers, Connects(c) PROVE AnswerInv'
  <2>1. serves' = serves /\ call[c].pc = "connect" /\ serves[Candidate(c)] # "dead"
    BY <1>3 DEF Connects
  <2>2. call'[c].conn.open /\ call'[c].conn.server = Candidate(c)
    <3>1. call'[c].conn = To(Candidate(c))
      BY <1>3, ConnectsDoes
    <3> QED
      BY <3>1 DEF To
  <2>3. serves'[(call[c].conn.server)'] # "dead"
    BY <2>1, <2>2
  <2>4. Fits(call[c])'
    BY <1>0, <1>3, <2>1, <2>2, <2>3, ConnectsDoes DEF Fits, ModeFits, Expects, Answers, Same
  <2> QED
    BY <1>3, <2>1, <2>4, ConnectsDoes, OneStepFits
<1>4. ASSUME NEW c \in Callers, Greeted(c) PROVE AnswerInv'
  <2>1. serves' = serves /\ call[c].pc = "greet"
    BY <1>4 DEF Greeted
  <2>2. Fits(call[c])'
    BY <1>0, <1>4, <2>1, GreetedDoes DEF Fits, ModeFits, Expects, Answers, Same
  <2> QED
    BY <1>4, <2>1, <2>2, GreetedDoes, OneStepFits
<1>5. ASSUME NEW c \in Callers, ConnectRefused(c) PROVE AnswerInv'
  <2>1. serves' = serves /\ call[c].pc = "connect"
        /\ serves[(call[c].start + call[c].offset) % N] = "dead"
    BY <1>5 DEF ConnectRefused, Candidate
  <2>2. call[c].offset \in Nat
    BY CallIsGood, SizeIsPositive DEF CallStates, Servers
  <2>3. call[c].owed = "answer" =>
           \A i \in 0 .. call'[c].offset - 1 : serves[(call[c].start + i) % N] = "dead"
    BY <1>0, <1>5, <2>1, <2>2, ConnectRefusedDoes DEF Expects
  <2>4. Fits(call[c])'
    BY <1>0, <1>5, <2>1, <2>3, ConnectRefusedDoes DEF Fits, ModeFits, Expects, Answers, Same
  <2> QED
    BY <1>5, <2>1, <2>4, ConnectRefusedDoes, OneStepFits
<1>6. ASSUME NEW c \in Callers, AnsweredOk(c) PROVE AnswerInv'
  <2>1. serves' = serves /\ Returns(c, "ok") /\ "ok" \in Results
    BY <1>6 DEF AnsweredOk, Results
  <2>2. Fits(call[c])'
    BY <2>1, ReturnsDoes DEF Fits, ModeFits, Expects
  <2> QED
    BY <2>1, <2>2, ReturnsDoes, OneStepFits
\* No server refuses a call to which an answer is owed, or has not what it asks for.
<1>7. ASSUME NEW c \in Callers, call[c].pc = "rpc", call[c].owed = "answer"
      PROVE  Answer(c) \in {"ok", "transport"}
  <2>1. call[c].conn.server \in Servers
    BY CallIsGood DEF CallStates, Connections
  <2>2. \/ Answers(call[c].conn.server, call[c].kind)
        \/ serves[call[c].conn.server] = "dead"
    BY <1>0, <1>7, <2>1 DEF Expects
  <2> QED
    BY <2>2 DEF Answer, Answers
<1>8. ASSUME NEW c \in Callers, BackoffBegins(c) PROVE AnswerInv'
  <2>1. serves' = serves /\ call[c].pc = "rpc" /\ call[c].mode = "first"
    BY <1>8 DEF BackoffBegins
  <2>2. Fits(call[c])'
    BY <1>0, <1>8, <2>1, BackoffBeginsDoes DEF Fits, ModeFits, Expects, Answers, Same
  <2> QED
    BY <1>8, <2>1, <2>2, BackoffBeginsDoes, OneStepFits
<1>9. ASSUME NEW c \in Callers, BacksOff(c) PROVE AnswerInv'
  <2>1. serves' = serves /\ call[c].pc = "rpc" /\ call[c].mode = "backoff"
    BY <1>9 DEF BacksOff
  <2>2. call[c].owed # "answer"
    BY <1>7, <1>9, <2>1 DEF BacksOff, IsRateLimited
  <2>3. Fits(call[c])'
    BY <1>0, <1>9, <2>1, <2>2, BacksOffDoes DEF Fits, ModeFits, Same
  <2> QED
    BY <1>9, <2>1, <2>3, BacksOffDoes, OneStepFits
<1>10. ASSUME NEW c \in Callers, TransportFails(c) PROVE AnswerInv'
  <2>1. serves' = serves /\ call[c].pc # "idle" /\ call[c].mode \in {"first", "backoff"}
    BY <1>10 DEF TransportFails, Answered, AllRefuse, Retryable
  <2>2. Fits(call[c])'
    BY <1>0, <1>10, <2>1, TransportFailsDoes DEF Fits, ModeFits, Expects, Answers, Same
  <2> QED
    BY <1>10, <2>1, <2>2, TransportFailsDoes, OneStepFits
<1>11. ASSUME NEW c \in Callers, FailsOver(c) PROVE AnswerInv'
  <2>1. serves' = serves /\ call[c].pc = "drop"
    BY <1>11 DEF FailsOver
  <2>2. call'[c].offset - 1 = -1
    BY <1>11, FailsOverDoes
  <2>3. call[c].mode # "once"
    BY <1>0, <2>1 DEF ModeFits
  <2>4. Fits(call[c])'
    BY <1>0, <1>11, <2>1, <2>2, <2>3, FailsOverDoes DEF Fits, ModeFits, Expects, Answers, Same
  <2> QED
    BY <1>11, <2>1, <2>4, FailsOverDoes, OneStepFits
<1>12. ASSUME NEW c \in Callers, ErrorEnds(c) PROVE AnswerInv'
  <2>1. PICK answer \in Results :
           /\ \/ call[c].pc = "rpc" /\ answer = Answer(c) /\ answer # "ok"
              \/ call[c].pc = "connect" /\ AllRefuse(c) /\ answer = "transport"
           /\ Retryable(c) => answer # "transport" /\ ~IsRateLimited(answer)
           /\ Ends(c, answer)
    BY <1>12, ErrorEndsDoes
  <2>2. serves' = serves
    BY <1>12 DEF ErrorEnds
  <2>3. call[c].owed # "answer"
    <3> SUFFICES ASSUME call[c].owed = "answer" PROVE FALSE
      OBVIOUS
    <3>0. Expects(call[c]) /\ call[c].pc # "idle"
      BY <1>0, <2>1
    <3>1. CASE call[c].pc = "rpc"
      <4>1. answer = "transport" /\ Answer(c) = "transport"
        BY <1>7, <2>1, <3>1
      <4>2. call[c].mode = "last"
        BY <1>0, <2>1, <3>0, <4>1 DEF Retryable, ModeFits, Expects
      <4>3. call[c].conn.open /\ serves[call[c].conn.server] # "dead"
        BY <3>0, <3>1, <4>2 DEF Expects
      <4>4. call[c].conn.server \in Servers
        BY CallIsGood DEF CallStates, Connections
      <4>5. Answers(call[c].conn.server, call[c].kind)
        BY <3>0, <4>3, <4>4 DEF Expects
      <4> QED
        BY <4>1, <4>3, <4>5 DEF Answer, Answers
    <3>2. CASE AllRefuse(c)
      <4>1. call[c].pc = "connect"
        BY <3>2 DEF AllRefuse
      <4>2. \A s \in Servers : serves[s] = "dead"
        BY <3>0, <3>2, <4>1, AllRefuseAllDead DEF Expects
      <4> QED
        BY <3>0, <4>2 DEF Expects, Answers
    <3> QED
      BY <2>1, <3>1, <3>2
  <2>4. CASE NextServer(c)
    <3>1. Fits(call[c])'
      BY <2>3, <2>4, NextServerDoes DEF Fits, ModeFits
    <3> QED
      BY <2>2, <2>4, <3>1, NextServerDoes, OneStepFits
  <2>5. CASE Returns(c, answer)
    <3>1. Fits(call[c])'
      BY <2>3, <2>5, ReturnsDoes DEF Fits, ModeFits
    <3> QED
      BY <2>2, <2>5, <3>1, ReturnsDoes, OneStepFits
  <2> QED
    BY <2>1, <2>4, <2>5 DEF Ends
<1>13. CASE CooldownEnds
  BY <1>13 DEF CooldownEnds, AnswerInv, Fits, ModeFits, Expects, Answers
<1>14. ASSUME NEW s \in Servers, NEW behaviour \in Behaviours, ServerChanges(s, behaviour)
       PROVE  AnswerInv'
  <2> SUFFICES ASSUME NEW c \in Callers PROVE Fits(call[c])'
    BY DEF AnswerInv
  <2>1. CASE call[c].pc = "idle"
    <3>1. call'[c] = call[c]
      BY <1>14, <2>1, ServerChangesDoes
    <3> QED
      BY <1>0, <2>1, <3>1 DEF Fits, ModeFits, Expects, Asks
  <2>2. CASE call[c].pc # "idle"
    <3>1. /\ call'[c].owed = "nothing" /\ call'[c].pc = call[c].pc
          /\ call'[c].mode = call[c].mode /\ call'[c].kind = call[c].kind
      BY <1>14, <2>2, ServerChangesDoes
    <3> QED
      BY <1>0, <3>1 DEF Fits, ModeFits
  <2> QED
    BY <2>1, <2>2
<1>15. CASE UNCHANGED vars
  BY <1>15 DEF vars, AnswerInv, Fits, ModeFits, Expects, Answers
<1> QED
  BY <1>1, <1>2, <1>3, <1>4, <1>5, <1>6, <1>8, <1>9, <1>10, <1>11, <1>12, <1>13, <1>14, <1>15
  DEF Next, Step

\* As long as no server changes, a call gets its answer when every server that can be
\* reached would give it, whatever the other callers do (manager.rs:182-230).
THEOREM ReachableAnswers == Spec => []ReachableServerAnswers
<1>1. Init => AnswerInv
  BY DEF Init, Quiet, AnswerInv, Fits, ModeFits
<1>2. AnswerInv => ReachableServerAnswers
  BY DEF AnswerInv, Fits, Expects, ReachableServerAnswers
<1> QED
  BY AskInit, AskStep, <1>1, <1>2, AnswerStep, PTL DEF Spec

-----------------------------------------------------------------------------
(* The search of a lookup.  Another caller may move the active server, so   *)
(* that the search passes some server over: this is of one caller alone.   *)

OneCaller == \A c, d \in Callers : c = d

\* The client's connection is to the active server, and there has been no failure since it
\* was made.
Single(k) ==
  /\ k.pc \in {"idle", "ensure"} =>
       connection.none \/ (connection.server = active /\ failures = 0)
  /\ k.pc \in {"connect", "greet"} => connection.none
  /\ k.pc = "greet" => k.conn.server = active /\ failures = 0
  /\ k.pc = "rpc" => connection = k.conn /\ k.conn.server = active /\ failures = 0

\* The server that is due: where the lookup began, moved by its attempts.
Due(k) == (k.from + k.attempt) % N

\* What keeps the promise of a search: the servers that were due have not the transaction or
\* cannot be reached, and the one that is due is asked, if it can be.
Searches(k) ==
  /\ k.pc = "idle" => k.result = "ok"
  /\ k.pc # "idle" =>
       /\ k.kind = "lookup"
       /\ k.mode \in {"first", "last"}
       /\ \E s \in Servers : serves[s] = "up"
       /\ \A s \in Servers : serves[s] \in {"up", "lacking", "dead"}
       /\ \A i \in 0 .. k.attempt - 1 : serves[(k.from + i) % N] \in {"lacking", "dead"}
  /\ k.pc \in {"ensure", "drop"} => active = Due(k)
  /\ k.pc = "connect" =>
       /\ k.start = Due(k)
       /\ \A i \in 0 .. k.offset - 1 : serves[(k.start + i) % N] = "dead"
  /\ k.pc \in {"greet", "rpc"} =>
       /\ k.conn.server = Due(k) \/ serves[Due(k)] = "dead"
       /\ \/ k.conn.open /\ serves[k.conn.server] # "dead"
          \/ k.pc = "rpc" /\ k.mode = "first" /\ k.conn.server = Due(k)
  /\ k.pc = "drop" => ~k.move

Seeks(k) == Single(k) /\ (k.owed = "search" => Searches(k))
SearchInv == \A c \in Callers : Seeks(call[c])

LEMMA CircleIsIdentity == ASSUME NEW s \in Servers PROVE s % N = s
  BY SizeIsPositive DEF Servers

LEMMA OwedSearch ==
  ASSUME NEW kind \in CallKinds, Owed(kind) = "search"
  PROVE  /\ kind = "lookup"
         /\ \E s \in Servers : serves[s] = "up"
         /\ \A s \in Servers : serves[s] \in {"up", "lacking", "dead"}
<1>1. \A s \in Servers : serves[s] \in {"up", "lacking", "dead"}
  BY DEF Owed
<1>2. \E s \in Servers : ~(Answers(s, kind) \/ serves[s] = "dead")
  BY DEF Owed
<1>3. kind = "lookup"
  BY <1>1, <1>2 DEF Answers
<1>4. \E s \in Servers : Answers(s, kind)
  BY DEF Owed
<1> QED
  BY <1>1, <1>3, <1>4 DEF Answers

\* What comes of a request that belongs to a search.
LEMMA SearchAnswers ==
  ASSUME AskInv, NEW c \in Callers, Seeks(call[c]), call[c].pc = "rpc",
         call[c].owed = "search"
  PROVE  /\ Answer(c) \in {"ok", "transport", "lookup"}
         /\ Answer(c) = "transport" =>
              call[c].mode = "first" /\ failures = 0 /\ active = Due(call[c])
         /\ Answer(c) = "lookup" => serves[call[c].conn.server] = "lacking"
<1>1. Single(call[c]) /\ Searches(call[c])
  BY DEF Seeks
<1>2. call[c].conn.server \in Servers
  BY CallIsGood DEF CallStates, Connections
<1>3. serves[call[c].conn.server] \in {"up", "lacking", "dead"} /\ call[c].kind = "lookup"
  BY <1>1, <1>2 DEF Searches
<1>4. /\ Answer(c) \in {"ok", "transport", "lookup"}
      /\ Answer(c) = "lookup" => serves[call[c].conn.server] = "lacking"
      /\ Answer(c) = "transport" => ~call[c].conn.open \/ serves[call[c].conn.server] = "dead"
  BY <1>3 DEF Answer
<1>5. Answer(c) = "transport" => call[c].mode = "first" /\ call[c].conn.server = Due(call[c])
  BY <1>1, <1>4 DEF Searches
<1>6. call[c].conn.server = active /\ failures = 0
  BY <1>1 DEF Single
<1> QED
  BY <1>4, <1>5, <1>6

\* A search finds a server to connect to.
LEMMA SearchConnects ==
  ASSUME AskInv, NEW c \in Callers, Seeks(call[c]), AllRefuse(c)
  PROVE  call[c].owed # "search"
<1> SUFFICES ASSUME call[c].owed = "search" PROVE FALSE
  OBVIOUS
<1>1. Searches(call[c]) /\ call[c].pc = "connect"
  BY DEF Seeks, AllRefuse
<1>2. \A s \in Servers : serves[s] = "dead"
  BY <1>1, AllRefuseAllDead DEF Searches
<1>3. \E s \in Servers : serves[s] = "up"
  BY <1>1 DEF Searches
<1> QED
  BY <1>2, <1>3

\* The server that was due has not the transaction, or cannot be reached; there is another.
LEMMA SearchGoesOn ==
  ASSUME AskInv, NEW c \in Callers, Seeks(call[c]), call[c].pc = "rpc",
         call[c].owed = "search", Answer(c) = "lookup"
  PROVE  /\ ~SearchedAll(c) /\ N > 1
         /\ \A i \in 0 .. call[c].attempt : serves[(call[c].from + i) % N] \in {"lacking", "dead"}
<1> DEFINE k == call[c]
<1>0. Searches(k) /\ serves[k.conn.server] = "lacking"
  BY SearchAnswers DEF Seeks
<1>1. serves[Due(k)] \in {"lacking", "dead"}
  BY <1>0 DEF Searches
<1>2. k.from \in Servers /\ k.attempt \in Nat /\ k.attempt \in 0 .. N - 1
  BY CallIsGood, SizeIsPositive DEF CallStates, Servers
<1>3. \A i \in 0 .. k.attempt : serves[(k.from + i) % N] \in {"lacking", "dead"}
  <2>1. \A i \in 0 .. k.attempt - 1 : serves[(k.from + i) % N] \in {"lacking", "dead"}
    BY <1>0 DEF Searches
  <2>2. serves[(k.from + k.attempt) % N] \in {"lacking", "dead"}
    BY <1>1 DEF Due
  <2> QED
    BY <1>2, <2>1, <2>2
<1>4. ~(k.attempt + 1 = N)
  <2> SUFFICES ASSUME k.attempt + 1 = N PROVE FALSE
    OBVIOUS
  <2>1. PICK s \in Servers : serves[s] = "up"
    BY <1>0 DEF Searches
  <2>2. PICK i \in 0 .. N - 1 : (k.from + i) % N = s
    BY <1>2, CircleReaches
  <2>3. i \in 0 .. k.attempt
    BY <1>2, SizeIsPositive
  <2> QED
    BY <1>3, <2>1, <2>2, <2>3
<1> QED
  BY <1>2, <1>3, <1>4, SizeIsPositive DEF SearchedAll

LEMMA SearchStep == OneCaller /\ AskInv /\ SearchInv /\ [Next]_vars => SearchInv'
<1> SUFFICES ASSUME OneCaller, AskInv, SearchInv, [Next]_vars PROVE SearchInv'
  OBVIOUS
<1>0. ASSUME NEW c \in Callers
      PROVE  /\ Seeks(call[c]) /\ Single(call[c])
             /\ call[c].owed = "search" => Searches(call[c])
             /\ call[c].kind \in CallKinds /\ call[c].mode \in {"first", "backoff", "last", "once"}
             /\ Asks(call[c])
             /\ call[c].from \in Servers /\ call[c].attempt \in Nat /\ call[c].offset \in Nat
             /\ call[c].start \in Servers
  BY CallIsGood, SizeIsPositive DEF SearchInv, Seeks, CallStates, Servers
<1>a. ASSUME NEW c \in Callers, Seeks(call[c])' PROVE SearchInv'
  BY <1>a DEF SearchInv, OneCaller
<1>b. active \in Servers
  BY DEF AskInv, TypeOK
<1>1. ASSUME NEW c \in Callers, NEW kind \in Kinds, Begin(c, kind) PROVE SearchInv'
  <2>1. UNCHANGED <<serves, active, connection, failures>> /\ call[c].pc = "idle"
    BY <1>1 DEF Begin
  <2>2. Single(call[c])'
    BY <1>0, <1>1, <2>1, BeginDoes DEF Single
  <2>3. ASSUME call'[c].owed = "search" PROVE Searches(call[c])'
    <3>1. /\ call'[c].pc = "ensure" /\ call'[c].kind = kind /\ Owed(kind) = "search"
          /\ call'[c].mode = FirstMode(kind) /\ call'[c].attempt = 0
          /\ kind = "lookup" => call'[c].from = active
      BY <1>1, <2>3, BeginDoes
    <3>2. /\ kind = "lookup"
          /\ \E s \in Servers : serves[s] = "up"
          /\ \A s \in Servers : serves[s] \in {"up", "lacking", "dead"}
      BY <3>1, OwedSearch, ClientAssumption
    <3>3. FirstMode(kind) = "first"
      BY <3>2 DEF FirstMode
    <3>4. active + 0 = active /\ active % N = active
      BY <1>b, CircleIsIdentity, SizeIsPositive DEF Servers
    <3> QED
      BY <2>1, <3>1, <3>2, <3>3, <3>4 DEF Searches, Due
  <2> QED
    BY <1>a, <2>2, <2>3 DEF Seeks
<1>2. ASSUME NEW c \in Callers, Ensure(c) PROVE SearchInv'
  <2>1. UNCHANGED <<serves, active, connection, failures>> /\ call[c].pc = "ensure"
    BY <1>2 DEF Ensure
  <2>2. Single(call[c])'
    BY <1>0, <1>2, <2>1, EnsureDoes DEF Single
  <2>3. ASSUME call'[c].owed = "search" PROVE Searches(call[c])'
    <3>1. Searches(call[c]) /\ call[c].mode = "first"
      BY <1>0, <1>2, <2>1, <2>3, EnsureDoes DEF Same, Searches, Asks
    <3>2. connection.none \/ connection.server = active
      BY <1>0, <2>1 DEF Single
    <3> QED
      BY <1>2, <2>1, <3>1, <3>2, EnsureDoes DEF Searches, Due, Same
  <2> QED
    BY <1>a, <2>2, <2>3 DEF Seeks
<1>3. ASSUME NEW c \in Callers, Connects(c) PROVE SearchInv'
  <2>1. /\ UNCHANGED <<serves, connection>> /\ call[c].pc = "connect"
        /\ active' = Candidate(c) /\ failures' = 0 /\ serves[Candidate(c)] # "dead"
    BY <1>3 DEF Connects
  <2>2. call'[c].conn.open /\ call'[c].conn.server = Candidate(c)
    <3>1. call'[c].conn = To(Candidate(c))
      BY <1>3, ConnectsDoes
    <3> QED
      BY <3>1 DEF To
  <2>3. Single(call[c])'
    BY <1>0, <1>3, <2>1, <2>2, ConnectsDoes DEF Single
  <2>4. ASSUME call'[c].owed = "search" PROVE Searches(call[c])'
    <3>1. Searches(call[c])
      BY <1>0, <1>3, <2>4, ConnectsDoes DEF Same
    <3>2. /\ call[c].start = Due(call[c])
          /\ \A i \in 0 .. call[c].offset - 1 : serves[(call[c].start + i) % N] = "dead"
      BY <2>1, <3>1 DEF Searches
    <3>3. Candidate(c) = Due(call[c]) \/ serves[Due(call[c])] = "dead"
      <4>1. call[c].start % N = call[c].start /\ call[c].start + 0 = call[c].start
        BY <1>0, CircleIsIdentity, SizeIsPositive DEF Servers
      <4>2. CASE call[c].offset = 0
        BY <3>2, <4>1, <4>2 DEF Candidate
      <4>3. CASE call[c].offset # 0
        <5>1. 0 \in 0 .. call[c].offset - 1
          BY <1>0, <4>3
        <5>2. serves[(call[c].start + 0) % N] = "dead"
          BY <3>2, <5>1
        <5> QED
          BY <3>2, <4>1, <5>2
      <4> QED
        BY <4>2, <4>3
    <3>4. Due(call'[c]) = Due(call[c])
      BY <1>3, ConnectsDoes DEF Due, Same
    <3>5. call'[c].pc = "greet" /\ call'[c].mode = call[c].mode /\ Same(call'[c], call[c])
      BY <1>3, ConnectsDoes
    <3> QED
      BY <2>1, <2>2, <3>1, <3>3, <3>4, <3>5 DEF Searches, Same, Due
  <2> QED
    BY <1>a, <2>3, <2>4 DEF Seeks
<1>4. ASSUME NEW c \in Callers, Greeted(c) PROVE SearchInv'
  <2>1. /\ UNCHANGED <<serves, active, failures>> /\ call[c].pc = "greet"
        /\ connection' = call[c].conn
    BY <1>4 DEF Greeted
  <2>2. Single(call[c])'
    BY <1>0, <1>4, <2>1, GreetedDoes DEF Single
  <2>3. ASSUME call'[c].owed = "search" PROVE Searches(call[c])'
    <3>1. Searches(call[c])
      BY <1>0, <1>4, <2>3, GreetedDoes DEF Same
    <3> QED
      BY <1>4, <2>1, <3>1, GreetedDoes DEF Searches, Due, Same
  <2> QED
    BY <1>a, <2>2, <2>3 DEF Seeks
<1>5. ASSUME NEW c \in Callers, ConnectRefused(c) PROVE SearchInv'
  <2>1. /\ UNCHANGED <<serves, active, connection, failures>> /\ call[c].pc = "connect"
        /\ serves[(call[c].start + call[c].offset) % N] = "dead"
    BY <1>5 DEF ConnectRefused, Candidate
  <2>2. Single(call[c])'
    BY <1>0, <1>5, <2>1, ConnectRefusedDoes DEF Single
  <2>3. ASSUME call'[c].owed = "search" PROVE Searches(call[c])'
    <3>1. Searches(call[c])
      BY <1>0, <1>5, <2>3, ConnectRefusedDoes DEF Same
    <3>2. \A i \in 0 .. call[c].offset : serves[(call[c].start + i) % N] = "dead"
      BY <1>0, <2>1, <3>1 DEF Searches
    <3>3. call'[c].offset - 1 = call[c].offset /\ call'[c].start = call[c].start
      BY <1>0, <1>5, ConnectRefusedDoes
    <3> QED
      BY <1>5, <2>1, <3>1, <3>2, <3>3, ConnectRefusedDoes DEF Searches, Due, Same
  <2> QED
    BY <1>a, <2>2, <2>3 DEF Seeks
<1>6. ASSUME NEW c \in Callers, AnsweredOk(c) PROVE SearchInv'
  <2>1. /\ UNCHANGED <<serves, active, connection>> /\ failures' \in {0, failures}
        /\ Returns(c, "ok") /\ "ok" \in Results /\ call[c].pc = "rpc"
    BY <1>6 DEF AnsweredOk, Answered, Results
  <2>2. Single(call[c])'
    BY <1>0, <2>1, ReturnsDoes DEF Single
  <2>3. Searches(call[c])'
    BY <2>1, ReturnsDoes DEF Searches
  <2> QED
    BY <1>a, <2>2, <2>3 DEF Seeks
<1>7. ASSUME NEW c \in Callers, BackoffBegins(c) PROVE SearchInv'
  <2>1. /\ UNCHANGED <<serves, active, connection, failures>> /\ call[c].pc = "rpc"
        /\ Answer(c) = "limited"
    BY <1>7 DEF BackoffBegins, IsRateLimited
  <2>2. Single(call[c])'
    BY <1>0, <1>7, <2>1, BackoffBeginsDoes DEF Single
  <2>3. call'[c].owed # "search"
    BY <1>0, <1>7, <2>1, SearchAnswers, BackoffBeginsDoes DEF Same
  <2> QED
    BY <1>a, <2>2, <2>3 DEF Seeks
<1>8. ASSUME NEW c \in Callers, BacksOff(c) PROVE SearchInv'
  <2>1. /\ UNCHANGED <<serves, active, connection, failures>> /\ call[c].pc = "rpc"
        /\ Answer(c) = "limited"
    BY <1>8 DEF BacksOff, IsRateLimited
  <2>2. call'[c].pc \in {"idle", "ensure"} /\ call'[c].owed = call[c].owed
    BY <1>8, BacksOffDoes DEF Same
  <2>3. Single(call[c])'
    BY <1>0, <2>1, <2>2 DEF Single
  <2>4. call'[c].owed # "search"
    BY <1>0, <2>1, <2>2, SearchAnswers
  <2> QED
    BY <1>a, <2>3, <2>4 DEF Seeks
<1>9. ASSUME NEW c \in Callers, TransportFails(c) PROVE SearchInv'
  <2>1. /\ UNCHANGED <<serves, active, connection>>
        /\ (call[c].pc = "rpc" /\ Answer(c) = "transport") \/ AllRefuse(c)
    BY <1>9 DEF TransportFails, Answered
  <2>2. Single(call[c])'
    BY <1>9, TransportFailsDoes DEF Single
  <2>3. ASSUME call'[c].owed = "search" PROVE Searches(call[c])'
    <3>1. Searches(call[c]) /\ call[c].owed = "search"
      BY <1>0, <1>9, <2>3, TransportFailsDoes DEF Same
    <3>2. call[c].pc = "rpc" /\ Answer(c) = "transport"
      BY <1>0, <2>1, <3>1, SearchConnects
    <3>3. call[c].mode = "first" /\ failures = 0 /\ active = Due(call[c])
      BY <1>0, <3>1, <3>2, SearchAnswers
    <3>4. /\ call'[c].pc = "drop" /\ call'[c].move = (failures > 0)
          /\ Same(call'[c], call[c]) /\ call'[c].mode = call[c].mode
      BY <1>9, TransportFailsDoes
    <3>5. ~call'[c].move
      <4>1. (failures > 0) = FALSE
        BY <3>3
      <4>2. call'[c].move = (failures > 0)
        BY <3>4
      <4> QED
        BY <4>1, <4>2, Zenon
    <3> QED
      BY <2>1, <3>1, <3>2, <3>3, <3>4, <3>5 DEF Searches, Due, Same
  <2> QED
    BY <1>a, <2>2, <2>3 DEF Seeks
<1>10. ASSUME NEW c \in Callers, FailsOver(c) PROVE SearchInv'
  <2>1. /\ serves' = serves /\ call[c].pc = "drop" /\ connection' = None
    BY <1>10 DEF FailsOver, DropConnection
  <2>2. Single(call[c])'
    BY <1>10, <2>1, FailsOverDoes DEF Single, None
  <2>3. ASSUME call'[c].owed = "search" PROVE Searches(call[c])'
    <3>1. Searches(call[c])
      BY <1>0, <1>10, <2>3, FailsOverDoes DEF Same
    <3>2. active' = active /\ active = Due(call[c])
      BY <1>10, <2>1, <3>1, FailsOverDoes DEF Searches
    <3>3. call'[c].offset - 1 = -1
      BY <1>10, FailsOverDoes
    <3>4. /\ call'[c].pc = "connect" /\ call'[c].mode = "last" /\ call'[c].start = active'
          /\ Same(call'[c], call[c])
      BY <1>10, FailsOverDoes
    <3> QED
      BY <2>1, <3>1, <3>2, <3>3, <3>4 DEF Searches, Due, Same
  <2> QED
    BY <1>a, <2>2, <2>3 DEF Seeks
<1>11. ASSUME NEW c \in Callers, ErrorEnds(c) PROVE SearchInv'
  <2>1. PICK answer \in Results :
           /\ \/ call[c].pc = "rpc" /\ answer = Answer(c) /\ answer # "ok"
              \/ call[c].pc = "connect" /\ AllRefuse(c) /\ answer = "transport"
           /\ Retryable(c) => answer # "transport" /\ ~IsRateLimited(answer)
           /\ Ends(c, answer)
    BY <1>11, ErrorEndsDoes
  <2>2. UNCHANGED <<serves, failures>>
    BY <1>11 DEF ErrorEnds
  <2>3. ASSUME call[c].owed = "search"
        PROVE  /\ answer = "lookup" /\ ~SearchedAll(c) /\ N > 1 /\ call[c].pc = "rpc"
               /\ \A i \in 0 .. call[c].attempt :
                     serves[(call[c].from + i) % N] \in {"lacking", "dead"}
    <3>1. call[c].pc = "rpc" /\ answer = Answer(c) /\ answer # "ok"
      BY <1>0, <2>1, <2>3, SearchConnects
    <3>2. answer # "transport"
      BY <1>0, <2>1, <2>3, <3>1, SearchAnswers DEF Retryable
    <3>3. answer = "lookup"
      BY <1>0, <2>3, <3>1, <3>2, SearchAnswers
    <3> QED
      BY <1>0, <2>3, <3>1, <3>3, SearchGoesOn
  <2>4. CASE NextServer(c)
    <3>1. Single(call[c])'
      BY <2>4, NextServerDoes DEF Single, None
    <3>2. ASSUME call'[c].owed = "search" PROVE Searches(call[c])'
      <4>1. call[c].owed = "search" /\ Searches(call[c])
        BY <1>0, <2>4, <3>2, NextServerDoes
      <4>2. /\ ~SearchedAll(c) /\ call[c].pc = "rpc"
            /\ \A i \in 0 .. call[c].attempt :
                  serves[(call[c].from + i) % N] \in {"lacking", "dead"}
        BY <2>3, <4>1
      <4>3. /\ call'[c].pc = "ensure" /\ call'[c].kind = "lookup" /\ call'[c].mode = "first"
            /\ call'[c].from = call[c].from /\ call'[c].attempt = call[c].attempt + 1
            /\ active' = After(call[c].from + call[c].attempt)
        BY <2>4, <4>2, NextServerDoes
      <4>4. active' = Due(call'[c])
        <5>1. (call[c].from + call[c].attempt) + 1 = call[c].from + (call[c].attempt + 1)
          BY <1>0, SizeIsPositive DEF Servers
        <5> QED
          BY <4>3, <5>1 DEF Due, After
      <4>5. call'[c].attempt - 1 = call[c].attempt
        BY <1>0, <4>3
      <4>6. /\ \E s \in Servers : serves'[s] = "up"
            /\ \A s \in Servers : serves'[s] \in {"up", "lacking", "dead"}
        BY <2>2, <4>1, <4>2 DEF Searches
      <4>7. \A i \in 0 .. call'[c].attempt - 1 :
               serves'[(call'[c].from + i) % N] \in {"lacking", "dead"}
        BY <2>2, <4>2, <4>3, <4>5
      <4> QED
        BY <4>3, <4>4, <4>6, <4>7 DEF Searches, Due
    <3> QED
      BY <1>a, <3>1, <3>2 DEF Seeks
  <2>5. CASE Returns(c, answer) /\ UNCHANGED <<active, connection>>
                                /\ ~(call[c].kind = "lookup" /\ answer = "lookup" /\ N > 1)
    <3>1. Single(call[c])'
      BY <1>0, <2>1, <2>2, <2>5, ReturnsDoes DEF Single
    <3>2. call[c].owed # "search"
      BY <1>0, <2>3, <2>5 DEF Searches
    <3> QED
      BY <1>a, <2>5, <3>1, <3>2, ReturnsDoes DEF Seeks
  <2> QED
    BY <2>1, <2>4, <2>5 DEF Ends, ErrorEnds
<1>12. CASE CooldownEnds
  BY <1>12 DEF CooldownEnds, SearchInv, Seeks, Single, Searches, Due
<1>13. ASSUME NEW s \in Servers, NEW behaviour \in Behaviours, ServerChanges(s, behaviour)
       PROVE  SearchInv'
  <2> SUFFICES ASSUME NEW c \in Callers PROVE Seeks(call[c])'
    BY DEF SearchInv
  <2>1. UNCHANGED <<active, failures>> /\ connection' = Broken(connection, s)
    BY <1>13 DEF ServerChanges
  <2>2. ASSUME NEW k \in Connections
        PROVE  Broken(k, s).none = k.none /\ Broken(k, s).server = k.server
    BY DEF Broken, Connections
  <2>3. connection \in Connections /\ call[c].conn \in Connections
    BY CallIsGood DEF AskInv, TypeOK, CallStates
  <2>4. connection'.none = connection.none /\ connection'.server = connection.server
    BY <2>1, <2>2, <2>3
  <2>5. CASE call[c].pc = "idle"
    <3>1. call'[c] = call[c]
      BY <1>13, <2>5, ServerChangesDoes
    <3> QED
      BY <1>0, <2>1, <2>4, <2>5, <3>1 DEF Seeks, Single, Searches
  <2>6. CASE call[c].pc # "idle"
    <3>1. /\ call'[c].owed = "nothing" /\ call'[c].pc = call[c].pc
          /\ call'[c].conn = Broken(call[c].conn, s)
      BY <1>13, <2>6, ServerChangesDoes
    <3>2. call'[c].conn.server = call[c].conn.server
      BY <2>2, <2>3, <3>1
    <3> QED
      BY <1>0, <2>1, <2>4, <2>6, <3>1, <3>2 DEF Seeks, Single
  <2> QED
    BY <2>5, <2>6
<1>14. CASE UNCHANGED vars
  BY <1>14 DEF vars, SearchInv, Seeks, Single, Searches, Due
<1> QED
  BY <1>1, <1>2, <1>3, <1>4, <1>5, <1>6, <1>7, <1>8, <1>9, <1>10, <1>11, <1>12, <1>13, <1>14
  DEF Next, Step

\* As long as no server changes, one caller's lookup finds a transaction that some server that
\* can be reached has, if the others answer that they have not (manager.rs:495-522).
THEOREM SearchFinds ==
  ASSUME OneCaller
  PROVE  Spec => []LookupAsksEveryServer
<1>1. Init => SearchInv
  BY DEF Init, Quiet, None, SearchInv, Seeks, Single
<1>2. SearchInv => LookupAsksEveryServer
  BY DEF SearchInv, Seeks, Searches, LookupAsksEveryServer
<1>3. AskInv /\ SearchInv /\ [Next]_vars => SearchInv'
  BY SearchStep
<1> QED
  BY AskInit, AskStep, <1>1, <1>2, <1>3, PTL DEF Spec
=============================================================================
