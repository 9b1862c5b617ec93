--------------------------- MODULE ServerListProofs ---------------------------
(***************************************************************************)
(* What holds of the servers of a session for every number of callers and  *)
(* every list.  Two of the proofs follow who is between storing a list and *)
(* having replaced the client: as long as it is one call alone, its list   *)
(* is the one stored, and the client lags by that call only.  The type     *)
(* invariant takes two facts more: who stands where in the queue for the   *)
(* client, and that every list is one that was given or the default, so    *)
(* often rotated, since rotations of rotations are rotations.              *)
(***************************************************************************)
EXTENDS ServerList, TLAPS

Addresses == UNION {ToSet(list) : list \in Lists \cup {Default}}
Line == Seq(Addresses)

Call == [pc : {"idle", "wait", "using", "rotate", "set", "made", "swap"},
         kind : {"use", "set", "send"}, attempt : 0 .. 3, list : Line, client : Line,
         first : Line, alone : BOOLEAN]

\* The types that the steps need; the order in the queue does not matter here.
Shapes == /\ servers \in Line
          /\ backend \in Line
          /\ call \in [Callers -> Call]
          /\ mixed \in BOOLEAN

\* Unless sets have mixed, at most one call is setting the list, which is its own, and
\* without one the client is of the list.
OneSets ==
    ~mixed => \/ /\ \A c \in Callers : ~Setting(c)
                 /\ backend = servers
              \/ \E c \in Callers : /\ Setting(c)
                                    /\ call[c].list = servers
                                    /\ \A d \in Callers \ {c} : ~Setting(d)

-----------------------------------------------------------------------------
\* rotate_electrum_server keeps all servers, each one place earlier, the first last.
LEMMA RotatedLine ==
  ASSUME NEW S, NEW list \in Seq(S), Len(list) > 0
  PROVE  /\ Rotated(list) \in Seq(S)
         /\ Len(Rotated(list)) = Len(list)
         /\ \A i \in 1 .. Len(list) :
               Rotated(list)[i] = IF i < Len(list) THEN list[i + 1] ELSE list[1]
  BY DEF Rotated

\* Every list of the application is one of addresses.
LEMMA ListsAreLines == \A list \in Lists \cup {Default} : list \in Line
<1> SUFFICES ASSUME NEW list \in Lists \cup {Default} PROVE list \in Line
  OBVIOUS
<1>1. list \in Seq(ToSet(list))
  BY ServerAssumption
<1>2. ToSet(list) \subseteq Addresses
  BY DEF Addresses
<1> QED
  BY <1>1, <1>2 DEF Line

\* A caller that calls nothing has the type of a call.
LEMMA IdleIsCall == Idle \in Call
<1>1. <<>> \in Line
  BY DEF Line
<1> QED
  BY <1>1 DEF Idle, Call

-----------------------------------------------------------------------------
\* A call that has moved on is a call:
LEMMA AtAnother ==
  ASSUME NEW k \in Call, NEW pc \in {"wait", "using", "rotate", "set", "made", "swap"}
  PROVE  [k EXCEPT !.pc = pc] \in Call
  BY DEF Call

\* one that has got the client,
LEMMA GetsClient ==
  ASSUME NEW k \in Call, NEW l \in Line
  PROVE  [k EXCEPT !.pc = "using", !.client = l] \in Call
  BY DEF Call

\* one that has nothing to rotate,
LEMMA KeepsList ==
  ASSUME NEW k \in Call, NEW n \in 0 .. 3
  PROVE  [k EXCEPT !.pc = "wait", !.attempt = n] \in Call
  BY DEF Call

\* one with a list to set,
LEMMA WithAnotherList ==
  ASSUME NEW k \in Call, NEW l \in Line
  PROVE  [k EXCEPT !.pc = "set", !.list = l] \in Call
  BY DEF Call

\* one that goes on after a set,
LEMMA Continues ==
  ASSUME NEW k \in Call, NEW l \in Line, NEW n \in 0 .. 3
  PROVE  [k EXCEPT !.pc = "wait", !.attempt = n, !.list = l] \in Call
  BY DEF Call

\* one that has asked for the coins,
LEMMA AsksAgain ==
  ASSUME NEW k \in Call, NEW l \in Line, NEW n \in 0 .. 3
  PROVE  [k EXCEPT !.pc = "wait", !.attempt = n, !.client = l] \in Call
  BY DEF Call

\* one that will rotate the list,
LEMMA Rotates ==
  ASSUME NEW k \in Call, NEW l \in Line
  PROVE  [k EXCEPT !.pc = "rotate", !.first = k.client, !.client = l] \in Call
  BY DEF Call

\* one that begins to wait,
LEMMA Starts ==
  ASSUME NEW k \in Call, NEW kind \in {"use", "set", "send"}, NEW n \in 0 .. 3, NEW b \in BOOLEAN
  PROVE  [k EXCEPT !.pc = "wait", !.kind = kind, !.attempt = n, !.alone = b] \in Call
  BY DEF Call

\* and one whose list was touched.
LEMMA NotAlone ==
  ASSUME NEW k \in Call
  PROVE  [k EXCEPT !.alone = FALSE] \in Call
  BY DEF Call

\* Every step keeps the types.
LEMMA ShapesStep == Shapes /\ [Next]_vars => Shapes'
<1> SUFFICES ASSUME Shapes, [Next]_vars PROVE Shapes'
  OBVIOUS
<1> USE DEF Shapes
<1>0. <<>> \in Line
  BY DEF Line
<1>1. ASSUME NEW c \in Callers, StartUse(c) PROVE Shapes'
  <2>1. PICK kind \in {"use", "send"} :
           call' = [call EXCEPT ![c] = [Idle EXCEPT !.pc = "wait", !.kind = kind, !.attempt = 1,
                                                    !.alone = kind = "use" \/ Settled]]
    BY <1>1 DEF StartUse
  <2> DEFINE b == kind = "use" \/ Settled
  <2>0. b \in BOOLEAN
    OBVIOUS
  <2> HIDE DEF b
  <2>2. [Idle EXCEPT !.pc = "wait", !.kind = kind, !.attempt = 1, !.alone = b] \in Call
    <3>1. kind \in {"use", "set", "send"} /\ 1 \in 0 .. 3
      OBVIOUS
    <3> QED
      BY <2>0, <3>1, IdleIsCall, Starts, Zenon
  <2>3. call' = [call EXCEPT ![c] = [Idle EXCEPT !.pc = "wait", !.kind = kind, !.attempt = 1,
                                                 !.alone = b]]
    BY <2>1 DEF b
  <2> QED
    BY <1>1, <2>2, <2>3 DEF StartUse
<1>2. ASSUME NEW c \in Callers, StartSet(c) PROVE Shapes'
  <2>1. PICK list \in Lists \ {<<>>} :
           call' = [call EXCEPT ![c] = [Idle EXCEPT !.pc = "set", !.kind = "set", !.list = list]]
    BY <1>2 DEF StartSet
  <2>2. [Idle EXCEPT !.pc = "set", !.kind = "set", !.list = list] \in Call
    BY IdleIsCall, ListsAreLines DEF Call
  <2> QED
    BY <1>2, <2>1, <2>2 DEF StartSet
<1>3. ASSUME NEW c \in Callers, Enter(c) PROVE Shapes'
  <2>1. call' = [call EXCEPT ![c] = [call[c] EXCEPT !.pc = "using", !.client = backend]]
    BY <1>3 DEF Enter
  <2>2. [call[c] EXCEPT !.pc = "using", !.client = backend] \in Call
    BY GetsClient
  <2>3. UNCHANGED <<servers, backend, mixed>>
    BY <1>3 DEF Enter
  <2> QED
    BY <2>1, <2>2, <2>3
<1>4. ASSUME NEW c \in Callers, Leave(c) PROVE Shapes'
  BY <1>4, IdleIsCall DEF Leave
<1>5. ASSUME NEW c \in Callers, LookupFails(c) PROVE Shapes'
  <2>1. [call[c] EXCEPT !.pc = "rotate", !.first = call[c].client, !.client = <<>>] \in Call
    BY <1>0, Rotates
  <2> QED
    BY <1>5, <2>1 DEF LookupFails
<1>6. ASSUME NEW c \in Callers, AskedAgain(c) PROVE Shapes'
  <2>1. [call[c] EXCEPT !.pc = "wait", !.attempt = 3, !.client = <<>>] \in Call
    <3>1. call[c] \in Call /\ 3 \in 0 .. 3
      OBVIOUS
    <3> QED
      BY <1>0, <3>1, AsksAgain, Zenon
  <2> QED
    BY <1>6, <2>1 DEF AskedAgain
<1>7. ASSUME NEW c \in Callers, Rotate(c) PROVE Shapes'
  <2>1. CASE Len(servers) > 1
    <3>1. Rotated(servers) \in Line
      BY <2>1, RotatedLine DEF Line
    <3>2. [call[c] EXCEPT !.pc = "set", !.list = Rotated(servers)] \in Call
      BY <3>1, WithAnotherList
    <3> QED
      BY <1>7, <2>1, <3>2 DEF Rotate
  <2>2. CASE ~(Len(servers) > 1)
    <3>1. call' = [call EXCEPT ![c] = [call[c] EXCEPT !.pc = "wait", !.attempt = 2]]
      BY <1>7, <2>2 DEF Rotate
    <3>2. [call[c] EXCEPT !.pc = "wait", !.attempt = 2] \in Call
      <4>1. call[c] \in Call /\ 2 \in 0 .. 3
        OBVIOUS
      <4> QED
        BY <4>1, KeepsList, Zenon
    <3> QED
      BY <1>7, <3>1, <3>2 DEF Rotate
  <2> QED
    BY <2>1, <2>2
<1>8. ASSUME NEW c \in Callers, StoreList(c) PROVE Shapes'
  <2>1. Touched(c) \in [Callers -> Call]
    BY NotAlone DEF Touched
  <2>2. call[c].list \in Line
    BY DEF Call
  <2>3. (\E d \in Callers \ {c} : Setting(d)) \in BOOLEAN
    OBVIOUS
  <2>4. [Touched(c)[c] EXCEPT !.pc = "made"] \in Call
    BY <2>1, AtAnother
  <2>5. call' = [Touched(c) EXCEPT ![c] = [Touched(c)[c] EXCEPT !.pc = "made"]]
    BY <1>8 DEF StoreList
  <2>6. call' \in [Callers -> Call]
    BY <2>1, <2>4, <2>5
  <2> QED
    BY <1>8, <2>2, <2>3, <2>6 DEF StoreList
<1>9. ASSUME NEW c \in Callers, MakeClient(c) PROVE Shapes'
  <2>1. [call[c] EXCEPT !.pc = "swap"] \in Call
    BY AtAnother
  <2>2. \/ call' = [call EXCEPT ![c] = [call[c] EXCEPT !.pc = "swap"]] /\ mixed' = mixed
        \/ call' = [call EXCEPT ![c] = Idle] /\ mixed' = TRUE
    BY <1>9 DEF MakeClient
  <2>3. UNCHANGED <<servers, backend>>
    BY <1>9 DEF MakeClient
  <2> QED
    BY <2>1, <2>2, <2>3, IdleIsCall
<1>10. ASSUME NEW c \in Callers, Swap(c) PROVE Shapes'
  <2>1. [call[c] EXCEPT !.pc = "wait", !.attempt = 2, !.list = <<>>] \in Call
    <3>1. call[c] \in Call /\ 2 \in 0 .. 3
      OBVIOUS
    <3> QED
      BY <1>0, <3>1, Continues, Zenon
  <2>2. call[c].list \in Line
    BY DEF Call
  <2>3. \/ call' = [call EXCEPT ![c] = Idle]
        \/ call' = [call EXCEPT ![c] = [call[c] EXCEPT !.pc = "wait", !.attempt = 2, !.list = <<>>]]
    BY <1>10 DEF Swap, Continue
  <2>4. backend' = call[c].list /\ UNCHANGED <<servers, mixed>>
    BY <1>10 DEF Swap
  <2> QED
    BY <2>1, <2>2, <2>3, <2>4, IdleIsCall
<1>11. CASE UNCHANGED vars \/ \E c \in Callers : Hang(c) \/ Wake(c)
  BY <1>11 DEF vars, Hang, Wake
<1> QED
  BY <1>1, <1>2, <1>3, <1>4, <1>5, <1>6, <1>7, <1>8, <1>9, <1>10, <1>11
     DEF Next, Step, Callers

\* Only storing a list, failing to make its client, and replacing the client change who is
\* setting the list.
LEMMA OneSetsStep == Shapes /\ OneSets /\ [Next]_vars => OneSets'
<1> SUFFICES ASSUME Shapes, OneSets, [Next]_vars PROVE OneSets'
  OBVIOUS
<1> USE DEF Shapes, Setting, At
<1>1. ASSUME UNCHANGED <<servers, backend, mixed>>,
             \A d \in Callers : Setting(d)' = Setting(d) /\ (Setting(d) => call'[d].list = call[d].list)
      PROVE  OneSets'
  BY <1>1 DEF OneSets
<1>2. ASSUME NEW c \in Callers, StartUse(c) PROVE OneSets'
  BY <1>1, <1>2 DEF StartUse, Idle, Call
<1>3. ASSUME NEW c \in Callers, StartSet(c) PROVE OneSets'
  BY <1>1, <1>3 DEF StartSet, Idle, Call
<1>4. ASSUME NEW c \in Callers, Enter(c) PROVE OneSets'
  BY <1>1, <1>4 DEF Enter, Call
<1>5. ASSUME NEW c \in Callers, Leave(c) PROVE OneSets'
  BY <1>1, <1>5 DEF Leave, Idle, Call
<1>6. ASSUME NEW c \in Callers, LookupFails(c) PROVE OneSets'
  BY <1>1, <1>6 DEF LookupFails, Call
<1>7. ASSUME NEW c \in Callers, AskedAgain(c) PROVE OneSets'
  BY <1>1, <1>7 DEF AskedAgain, Call
<1>8. ASSUME NEW c \in Callers, Rotate(c) PROVE OneSets'
  <2>1. /\ UNCHANGED <<servers, backend, mixed>>
        /\ call[c].pc = "rotate"
    BY <1>8 DEF Rotate
  <2>2. call'[c].pc \in {"set", "wait"}
    <3>1. \/ call'[c] = [call[c] EXCEPT !.pc = "set", !.list = Rotated(servers)]
          \/ call'[c] = [call[c] EXCEPT !.pc = "wait", !.attempt = 2]
      BY <1>8 DEF Rotate
    <3>2. call[c] \in Call
      OBVIOUS
    <3> QED
      BY <3>1, <3>2 DEF Call
  <2>3. \A d \in Callers \ {c} : call'[d] = call[d]
    BY <1>8 DEF Rotate
  <2> QED
    BY <1>1, <2>1, <2>2, <2>3
<1>9. ASSUME NEW c \in Callers, StoreList(c) PROVE OneSets'
  <2>1. /\ call' = [Touched(c) EXCEPT ![c].pc = "made"]
        /\ servers' = call[c].list
        /\ mixed' = \E d \in Callers \ {c} : Setting(d)
    BY <1>9 DEF StoreList
  <2>2. call'[c].pc = "made" /\ call'[c].list = call[c].list
    BY <2>1 DEF Touched, Call
  <2>3. \A d \in Callers \ {c} : call'[d].pc = call[d].pc
    BY <2>1 DEF Touched, Call
  <2> QED
    BY <2>1, <2>2, <2>3 DEF OneSets
<1>10. ASSUME NEW c \in Callers, MakeClient(c) PROVE OneSets'
  <2>1. CASE mixed'
    BY <2>1 DEF OneSets
  <2>2. CASE ~mixed'
    BY <1>1, <1>10, <2>2 DEF MakeClient, Call
  <2> QED
    BY <2>1, <2>2
<1>11. ASSUME NEW c \in Callers, Swap(c) PROVE OneSets'
  <2>1. /\ call[c].pc = "swap"
        /\ backend' = call[c].list
        /\ UNCHANGED <<servers, mixed>>
    BY <1>11 DEF Swap
  <2>2. call'[c].pc \in {"idle", "wait"}
    <3>1. CASE call[c].kind = "set"
      BY <1>11, <3>1 DEF Swap, Continue, Idle
    <3>2. CASE call[c].kind # "set"
      <4>1. call'[c] = [call[c] EXCEPT !.pc = "wait", !.attempt = 2, !.list = <<>>]
        BY <1>11, <3>2 DEF Swap, Continue
      <4> QED
        BY <4>1 DEF Call
    <3> QED
      BY <3>1, <3>2
  <2>3. \A d \in Callers \ {c} : call'[d] = call[d]
    BY <1>11 DEF Swap, Continue
  <2> QED
    BY <2>1, <2>2, <2>3 DEF OneSets
<1>12. CASE UNCHANGED vars \/ \E c \in Callers : Hang(c) \/ Wake(c)
  BY <1>12 DEF vars, Hang, Wake, OneSets
<1> QED
  BY <1>2, <1>3, <1>4, <1>5, <1>6, <1>7, <1>8, <1>9, <1>10, <1>11, <1>12
     DEF Next, Step, Callers

\* At the start nobody sets the list.
LEMMA Start == Init => Shapes /\ OneSets
<1> SUFFICES ASSUME Init PROVE Shapes /\ OneSets
  OBVIOUS
<1>1. Shapes
  BY IdleIsCall, ListsAreLines DEF Init, Shapes
<1>2. OneSets
  BY DEF Init, OneSets, Setting, At, Idle
<1> QED
  BY <1>1, <1>2

\* When nobody sets the list, and the last who did was alone and had no error, the client
\* is made of the list that is shown as configured (session.rs:320).
THEOREM ConfiguredIsUsed == Spec => []ClientIsOfList
<1>1. Shapes /\ OneSets /\ [Next]_vars => (Shapes /\ OneSets)'
  BY ShapesStep, OneSetsStep
<1>2. OneSets => ClientIsOfList
  BY DEF OneSets, ClientIsOfList, Settled
<1> QED
  BY Start, <1>1, <1>2, PTL DEF Spec

-----------------------------------------------------------------------------
(* The second attempt of a send.                                             *)

\* No list has a server twice; only sends are repeated; who reads uses the client.
Orderly ==
    /\ IsInjective(servers)
    /\ \A c \in Callers : IsInjective(call[c].list)
    /\ \A c \in Callers : /\ At(c, "rotate") \/ call[c].attempt > 1 => call[c].kind = "send"
                          /\ At(c, "set") \/ Setting(c) => call[c].kind # "use"
    /\ \A c \in readers : c \in Callers /\ At(c, "using")

\* What a send knows whose list nobody else has touched.
Undisturbed(c) ==
    /\ ~mixed
    /\ \A d \in Callers \ {c} : ~Setting(d)
    /\ IsInjective(call[c].first)
    /\ At(c, "wait") \/ At(c, "using") \/ At(c, "rotate") => backend = servers
    /\ At(c, "using") => call[c].client = servers
    /\ At(c, "rotate") => call[c].first = servers
    /\ At(c, "set") \/ Setting(c) => /\ Len(call[c].first) > 1
                                    /\ call[c].list = Rotated(call[c].first)
    /\ Setting(c) => servers = call[c].list
    /\ (At(c, "wait") \/ At(c, "using")) /\ call[c].attempt > 1 /\ Len(call[c].first) > 1 =>
          servers = Rotated(call[c].first)
Alone(c) == call[c].kind = "send" /\ call[c].alone /\ ~At(c, "idle")
SendsKnow == \A c \in Callers : Alone(c) => Undisturbed(c)

\* A list without duplicates is rotated into one that begins with another server.
LEMMA RotatedDistinct ==
  ASSUME NEW S, NEW list \in Seq(S), Len(list) > 1, IsInjective(list)
  PROVE  IsInjective(Rotated(list)) /\ Head(Rotated(list)) # Head(list)
<1>1. /\ Rotated(list) \in Seq(S)
      /\ Len(Rotated(list)) = Len(list)
      /\ \A i \in 1 .. Len(list) :
            Rotated(list)[i] = IF i < Len(list) THEN list[i + 1] ELSE list[1]
  BY RotatedLine
<1>2. \A i, j \in 1 .. Len(list) : list[i] = list[j] => i = j
  BY DEF IsInjective
<1>3. ASSUME NEW i \in 1 .. Len(list), NEW j \in 1 .. Len(list),
             Rotated(list)[i] = Rotated(list)[j]
      PROVE  i = j
  BY <1>1, <1>2, <1>3
<1>4. IsInjective(Rotated(list))
  BY <1>1, <1>3 DEF IsInjective
<1>5. Head(Rotated(list)) = list[2] /\ Head(list) = list[1]
  BY <1>1
<1> QED
  BY <1>2, <1>4, <1>5

\* The application lists no server twice.
NoDuplicates == \A list \in Lists \cup {Default} : IsInjective(list)

\* Rotation, and lists without duplicates, bring no duplicates in.
LEMMA OrderlyStep == NoDuplicates /\ Shapes /\ Orderly /\ [Next]_vars => Orderly'
<1> SUFFICES ASSUME NoDuplicates, Shapes, Orderly, [Next]_vars PROVE Orderly'
  OBVIOUS
<1> USE DEF Shapes, Orderly, Setting, At
<1>0. IsInjective(<<>>)
  BY DEF IsInjective
<1>1. ASSUME NEW c \in Callers, StartUse(c) PROVE Orderly'
  BY <1>0, <1>1 DEF StartUse, Idle, Call
<1>2. ASSUME NEW c \in Callers, StartSet(c) PROVE Orderly'
  BY <1>0, <1>2 DEF StartSet, Idle, Call, NoDuplicates
<1>3. ASSUME NEW c \in Callers, Enter(c) PROVE Orderly'
  BY <1>3 DEF Enter, Call
<1>4. ASSUME NEW c \in Callers, Leave(c) PROVE Orderly'
  BY <1>0, <1>4 DEF Leave, Idle, Call
<1>5. ASSUME NEW c \in Callers, LookupFails(c) PROVE Orderly'
  BY <1>5 DEF LookupFails, Call
<1>6. ASSUME NEW c \in Callers, AskedAgain(c) PROVE Orderly'
  BY <1>6 DEF AskedAgain, Call
<1>7. ASSUME NEW c \in Callers, Rotate(c) PROVE Orderly'
  <2>1. Len(servers) > 1 => IsInjective(Rotated(servers))
    BY RotatedDistinct DEF Line
  <2>2. /\ call[c].pc = "rotate"
        /\ \A e \in Callers \ {c} : call'[e] = call[e]
        /\ UNCHANGED <<servers, readers>>
    BY <1>7 DEF Rotate
  <2>3. /\ call'[c].pc \in {"set", "wait"}
        /\ call'[c].kind = call[c].kind
        /\ IsInjective(call'[c].list)
    <3>1. CASE Len(servers) > 1
      <4>1. PICK list : list = Rotated(servers) /\ IsInjective(list)
        BY <2>1, <3>1
      <4>2. call' = [call EXCEPT ![c] = [@ EXCEPT !.pc = "set", !.list = list]]
        BY <1>7, <3>1, <4>1 DEF Rotate
      <4> QED
        BY <4>1, <4>2 DEF Call
    <3>2. CASE ~(Len(servers) > 1)
      <4>1. call' = [call EXCEPT ![c].pc = "wait", ![c].attempt = 2]
        BY <1>7, <3>2 DEF Rotate
      <4> QED
        BY <4>1 DEF Call
    <3> QED
      BY <3>1, <3>2
  <2> QED
    BY <2>2, <2>3
<1>8. ASSUME NEW c \in Callers, StoreList(c) PROVE Orderly'
  BY <1>8 DEF StoreList, Touched, Call
<1>9. ASSUME NEW c \in Callers, MakeClient(c) PROVE Orderly'
  BY <1>0, <1>9 DEF MakeClient, Idle, Call
<1>10. ASSUME NEW c \in Callers, Swap(c) PROVE Orderly'
  <2>1. /\ call[c].pc = "swap"
        /\ \A e \in Callers \ {c} : call'[e] = call[e]
        /\ UNCHANGED <<servers, readers>>
    BY <1>10 DEF Swap, Continue
  <2>2. /\ call'[c].pc \in {"idle", "wait"}
        /\ call'[c].attempt > 1 => call'[c].kind = "send"
        /\ call'[c].list = <<>>
    <3>1. CASE call[c].kind = "set"
      BY <1>10, <3>1 DEF Swap, Continue, Idle
    <3>2. CASE call[c].kind # "set"
      <4>1. call'[c] = [call[c] EXCEPT !.pc = "wait", !.attempt = 2, !.list = <<>>]
        BY <1>10, <3>2 DEF Swap, Continue
      <4>2. call[c].kind = "send"
        BY <2>1, <3>2 DEF Call
      <4> QED
        BY <4>1, <4>2 DEF Call
    <3> QED
      BY <3>1, <3>2
  <2> QED
    BY <1>0, <2>1, <2>2
<1>11. CASE UNCHANGED vars \/ \E c \in Callers : Hang(c) \/ Wake(c)
  BY <1>11 DEF vars, Hang, Wake
<1> QED
  BY <1>1, <1>2, <1>3, <1>4, <1>5, <1>6, <1>7, <1>8, <1>9, <1>10, <1>11
     DEF Next, Step, Callers

\* Whoever stores a list disturbs every other send; nobody else sets while a send is alone.
LEMMA SendsKnowStep == Shapes /\ OneSets /\ Orderly /\ SendsKnow /\ [Next]_vars => SendsKnow'
<1> SUFFICES ASSUME Shapes, OneSets, Orderly, SendsKnow, [Next]_vars,
                    NEW d \in Callers, Alone(d)'
             PROVE  Undisturbed(d)'
  BY DEF SendsKnow
<1> USE DEF Shapes, Setting, At, Alone
<1>1. ASSUME UNCHANGED <<servers, backend, mixed>>, call'[d] = call[d],
             \A e \in Callers : Setting(e)' => Setting(e)
      PROVE  Undisturbed(d)'
  BY <1>1 DEF SendsKnow, Undisturbed
<1>2. ASSUME NEW c \in Callers, StartUse(c) PROVE Undisturbed(d)'
  <2>1. CASE c = d
    <3>1. PICK kind \in {"use", "send"} :
             call' = [call EXCEPT ![c] = [Idle EXCEPT !.pc = "wait", !.kind = kind, !.attempt = 1,
                                                      !.alone = kind = "use" \/ Settled]]
      BY <1>2 DEF StartUse
    <3>2. /\ call'[d].pc = "wait" /\ call'[d].kind = kind /\ call'[d].attempt = 1
          /\ call'[d].alone = (kind = "use" \/ Settled)
          /\ call'[d].first = <<>>
      BY <2>1, <3>1 DEF Idle
    <3>3. kind # "use"
      BY <3>2
    <3>4. Settled
      BY <3>2, <3>3
    <3>5. ~mixed /\ (\A e \in Callers : ~Setting(e)) /\ backend = servers
      BY <3>4 DEF Settled, OneSets
    <3>6. \A e \in Callers \ {d} : call'[e] = call[e]
      BY <2>1, <3>1
    <3>7. UNCHANGED <<servers, backend, mixed>>
      BY <1>2 DEF StartUse
    <3>8. IsInjective(<<>>)
      BY DEF IsInjective
    <3> QED
      BY <3>2, <3>5, <3>6, <3>7, <3>8 DEF Undisturbed
  <2>2. CASE c # d
    BY <1>1, <1>2, <2>2 DEF StartUse, Idle, Call
  <2> QED
    BY <2>1, <2>2
<1>3. ASSUME NEW c \in Callers, StartSet(c) PROVE Undisturbed(d)'
  <2>1. CASE c = d
    BY <1>3, <2>1 DEF StartSet, Idle, Call
  <2>2. CASE c # d
    BY <1>1, <1>3, <2>2 DEF StartSet, Idle, Call
  <2> QED
    BY <2>1, <2>2
<1>4. ASSUME NEW c \in Callers, Enter(c) PROVE Undisturbed(d)'
  <2>1. CASE c = d
    BY <1>4, <2>1 DEF Enter, Call, SendsKnow, Undisturbed
  <2>2. CASE c # d
    BY <1>1, <1>4, <2>2 DEF Enter, Call
  <2> QED
    BY <2>1, <2>2
<1>5. ASSUME NEW c \in Callers, Leave(c) PROVE Undisturbed(d)'
  <2>1. CASE c = d
    BY <1>5, <2>1 DEF Leave, Idle, Call
  <2>2. CASE c # d
    BY <1>1, <1>5, <2>2 DEF Leave, Idle, Call
  <2> QED
    BY <2>1, <2>2
<1>6. ASSUME NEW c \in Callers, LookupFails(c) PROVE Undisturbed(d)'
  <2>1. CASE c = d
    BY <1>6, <2>1 DEF LookupFails, Call, SendsKnow, Undisturbed, Orderly
  <2>2. CASE c # d
    BY <1>1, <1>6, <2>2 DEF LookupFails, Call
  <2> QED
    BY <2>1, <2>2
<1>7. ASSUME NEW c \in Callers, AskedAgain(c) PROVE Undisturbed(d)'
  <2>1. CASE c = d
    BY <1>7, <2>1 DEF AskedAgain, Call, SendsKnow, Undisturbed
  <2>2. CASE c # d
    BY <1>1, <1>7, <2>2 DEF AskedAgain, Call
  <2> QED
    BY <2>1, <2>2
<1>8. ASSUME NEW c \in Callers, Rotate(c) PROVE Undisturbed(d)'
  <2>1. CASE c = d
    <3>1. /\ call[d].pc = "rotate" /\ UNCHANGED <<servers, backend, mixed>>
          /\ \A e \in Callers \ {d} : call'[e] = call[e]
      BY <1>8, <2>1 DEF Rotate
    <3>2. CASE Len(servers) > 1
      <4>1. call'[d] = [call[d] EXCEPT !.pc = "set", !.list = Rotated(servers)]
        BY <1>8, <2>1, <3>2 DEF Rotate
      <4>2. /\ call'[d].pc = "set" /\ call'[d].list = Rotated(servers)
            /\ call'[d].first = call[d].first
            /\ call'[d].kind = call[d].kind /\ call'[d].alone = call[d].alone
        <5>1. call[d] \in Call
          OBVIOUS
        <5> QED
          BY <4>1, <5>1 DEF Call
      <4>3. Undisturbed(d)
        BY <3>1, <4>2 DEF SendsKnow
      <4> QED
        BY <3>1, <3>2, <4>2, <4>3 DEF Undisturbed
    <3>3. CASE ~(Len(servers) > 1)
      <4>1. call'[d] = [call[d] EXCEPT !.pc = "wait", !.attempt = 2]
        BY <1>8, <2>1, <3>3 DEF Rotate
      <4>2. /\ call'[d].pc = "wait" /\ call'[d].first = call[d].first
            /\ call'[d].kind = call[d].kind /\ call'[d].alone = call[d].alone
        <5>1. call[d] \in Call
          OBVIOUS
        <5> QED
          BY <4>1, <5>1 DEF Call
      <4>3. Undisturbed(d)
        BY <3>1, <4>2 DEF SendsKnow
      <4> QED
        BY <3>1, <3>3, <4>2, <4>3 DEF Undisturbed
    <3> QED
      BY <3>2, <3>3
  <2>2. CASE c # d
    <3>1. call'[d] = call[d] /\ UNCHANGED <<servers, backend, mixed>>
      BY <1>8, <2>2 DEF Rotate
    <3>2. \A e \in Callers : call'[e].pc \in {"made", "swap"} => call'[e] = call[e]
      <4>1. \A e \in Callers \ {c} : call'[e] = call[e]
        BY <1>8 DEF Rotate
      <4>2. \/ call'[c] = [call[c] EXCEPT !.pc = "set", !.list = Rotated(servers)]
            \/ call'[c] = [call[c] EXCEPT !.pc = "wait", !.attempt = 2]
        BY <1>8 DEF Rotate
      <4>3. call'[c].pc \notin {"made", "swap"}
        BY <4>2 DEF Call
      <4> QED
        BY <4>1, <4>3
    <3> QED
      BY <1>1, <3>1, <3>2
  <2> QED
    BY <2>1, <2>2
<1>9. ASSUME NEW c \in Callers, StoreList(c) PROVE Undisturbed(d)'
  <2>1. c = d
    BY <1>9 DEF StoreList, Touched, Call
  <2> QED
    BY <1>9, <2>1 DEF StoreList, Touched, Call, SendsKnow, Undisturbed
<1>10. ASSUME NEW c \in Callers, MakeClient(c) PROVE Undisturbed(d)'
  <2>1. CASE c = d
    <3>1. call[d] \in Call /\ UNCHANGED <<servers, backend>> /\ call[d].pc = "made"
      BY <1>10, <2>1 DEF MakeClient, At
    <3>2. CASE call' = [call EXCEPT ![d].pc = "swap"] /\ UNCHANGED mixed
      <4>1. call'[d] = [call[d] EXCEPT !.pc = "swap"]
        BY <3>2
      <4>2. /\ call'[d].pc = "swap" /\ call'[d].first = call[d].first
            /\ call'[d].kind = call[d].kind /\ call'[d].alone = call[d].alone
            /\ call'[d].list = call[d].list
        BY <3>1, <4>1 DEF Call
      <4>3. \A e \in Callers \ {d} : call'[e] = call[e]
        BY <3>2
      <4> QED
        BY <3>1, <3>2, <4>2, <4>3 DEF SendsKnow, Undisturbed
    <3>3. CASE call' = [call EXCEPT ![d] = Idle]
      BY <3>1, <3>3 DEF Idle, Undisturbed
    <3> QED
      BY <1>10, <2>1, <3>2, <3>3 DEF MakeClient
  <2>2. CASE c # d
    BY <1>10, <2>2 DEF MakeClient, Idle, Call, SendsKnow, Undisturbed
  <2> QED
    BY <2>1, <2>2
<1>11. ASSUME NEW c \in Callers, Swap(c) PROVE Undisturbed(d)'
  <2>1. CASE c = d
    <3>1. /\ call[d].pc = "swap" /\ backend' = call[d].list
          /\ UNCHANGED <<servers, mixed>>
          /\ \A e \in Callers \ {d} : call'[e] = call[e]
      BY <1>11, <2>1 DEF Swap, Continue
    <3>2. call[d].kind # "set"
      BY <1>11, <2>1 DEF Swap, Continue, Idle
    <3>3. call'[d] = [call[d] EXCEPT !.pc = "wait", !.attempt = 2, !.list = <<>>]
      BY <1>11, <2>1, <3>2 DEF Swap, Continue
    <3>4. /\ call'[d].pc = "wait" /\ call'[d].first = call[d].first
          /\ call'[d].kind = call[d].kind /\ call'[d].alone = call[d].alone
      <4>1. call[d] \in Call
        OBVIOUS
      <4> QED
        BY <3>3, <4>1 DEF Call
    <3>5. Undisturbed(d)
      BY <3>1, <3>4 DEF SendsKnow
    <3> QED
      BY <3>1, <3>4, <3>5 DEF Undisturbed
  <2>2. CASE c # d
    BY <1>11, <2>2 DEF Swap, Continue, Idle, Call, SendsKnow, Undisturbed
  <2> QED
    BY <2>1, <2>2
<1>12. CASE UNCHANGED vars \/ \E c \in Callers : Hang(c) \/ Wake(c)
  BY <1>1, <1>12 DEF vars, Hang, Wake
<1> QED
  BY <1>2, <1>3, <1>4, <1>5, <1>6, <1>7, <1>8, <1>9, <1>10, <1>11, <1>12
     DEF Next, Step, Callers

\* The second attempt of a send goes to another server than the first, if there is one and
\* nobody else has touched the list since the send began (session.rs:242); so it is for
\* every set of lists without duplicates.
THEOREM RetriesAskAnother ==
  ASSUME NoDuplicates
  PROVE  Spec => []RetryAsksAnother
<1> DEFINE Inv == Shapes /\ OneSets /\ Orderly /\ SendsKnow
<1>1. Init => Inv
  <2> SUFFICES ASSUME Init PROVE Orderly /\ SendsKnow
    BY Start
  <2>1. IsInjective(<<>>)
    BY DEF IsInjective
  <2>2. IsInjective(servers)
    BY DEF Init, NoDuplicates
  <2> QED
    BY <2>1, <2>2 DEF Init, Orderly, SendsKnow, Alone, Setting, At, Idle
<1>2. Inv /\ [Next]_vars => Inv'
  BY ShapesStep, OneSetsStep, OrderlyStep, SendsKnowStep
<1>3. Inv => RetryAsksAnother
  <2> SUFFICES ASSUME Inv, NEW c \in readers, call[c].attempt > 1, call[c].alone,
                      Len(call[c].first) > 1
               PROVE  Head(call[c].client) # Head(call[c].first)
    BY DEF RetryAsksAnother
  <2>1. c \in Callers /\ At(c, "using") /\ call[c].kind = "send"
    BY DEF Orderly
  <2>2. Undisturbed(c)
    BY <2>1 DEF SendsKnow, Alone, At
  <2>3. call[c].client = Rotated(call[c].first) /\ IsInjective(call[c].first)
    BY <2>1, <2>2 DEF Undisturbed
  <2>4. call[c].first \in Line
    BY <2>1 DEF Shapes, Call
  <2> QED
    BY <2>3, <2>4, RotatedDistinct DEF Line
<1> HIDE DEF Inv
<1> QED
  BY <1>1, <1>2, <1>3, PTL DEF Spec

-----------------------------------------------------------------------------
(* The places of the callers: whoever waits stands in the queue once, whoever *)
(* uses the client is among its readers, and nobody else is in either.        *)

Waiting == {"wait", "swap"}

Places ==
    /\ readers = {c \in Callers : call[c].pc = "using"}
    /\ queue \in Seq(Callers)
    /\ IsInjective(queue)
    /\ \A c \in Callers : c \in ToSet(queue) <=> call[c].pc \in Waiting

\* One who is not in the queue goes to its end.
LEMMA Joins ==
  ASSUME NEW S, NEW q \in Seq(S), IsInjective(q), NEW c \in S, c \notin ToSet(q)
  PROVE  /\ Append(q, c) \in Seq(S)
         /\ IsInjective(Append(q, c))
         /\ ToSet(Append(q, c)) = ToSet(q) \cup {c}
<1> DEFINE r == Append(q, c)
<1>1. /\ r \in Seq(S) /\ Len(r) = Len(q) + 1
      /\ \A i \in 1 .. Len(q) : r[i] = q[i]
      /\ r[Len(q) + 1] = c
  OBVIOUS
<1>2. DOMAIN q = 1 .. Len(q) /\ DOMAIN r = 1 .. Len(q) + 1 /\ Len(q) \in Nat
  BY <1>1
<1>3. \A i \in 1 .. Len(q) : q[i] # c
  BY <1>2 DEF ToSet
<1> HIDE DEF r
<1>4. IsInjective(r)
  <2> SUFFICES ASSUME NEW i \in 1 .. Len(q) + 1, NEW j \in 1 .. Len(q) + 1, r[i] = r[j]
               PROVE  i = j
    BY <1>2 DEF IsInjective
  <2>1. CASE i \in 1 .. Len(q) /\ j \in 1 .. Len(q)
    BY <1>1, <1>2, <2>1 DEF IsInjective
  <2>2. CASE ~(i \in 1 .. Len(q) /\ j \in 1 .. Len(q))
    BY <1>1, <1>2, <1>3, <2>2
  <2> QED
    BY <2>1, <2>2
<1>5. ToSet(r) = ToSet(q) \cup {c}
  <2>1. ASSUME NEW x \in ToSet(r) PROVE x \in ToSet(q) \cup {c}
    BY <1>1, <1>2 DEF ToSet
  <2>2. ASSUME NEW x \in ToSet(q) PROVE x \in ToSet(r)
    <3>1. PICK i \in 1 .. Len(q) : x = q[i]
      BY <1>2 DEF ToSet
    <3>2. i \in DOMAIN r /\ r[i] = x
      BY <1>1, <1>2, <3>1
    <3> QED
      BY <3>2 DEF ToSet
  <2>3. c \in ToSet(r)
    BY <1>1, <1>2 DEF ToSet
  <2> QED
    BY <2>1, <2>2, <2>3
<1> QED
  BY <1>1, <1>4, <1>5 DEF r

\* The first in the queue leaves it.
LEMMA Served ==
  ASSUME NEW S, NEW q \in Seq(S), IsInjective(q), q # <<>>
  PROVE  /\ Tail(q) \in Seq(S)
         /\ IsInjective(Tail(q))
         /\ ToSet(Tail(q)) = ToSet(q) \ {Head(q)}
         /\ Head(q) \in ToSet(q)
<1> DEFINE r == Tail(q)
<1>1. /\ r \in Seq(S) /\ Len(r) = Len(q) - 1 /\ Len(q) \in Nat /\ Len(q) >= 1
      /\ \A i \in 1 .. Len(q) - 1 : r[i] = q[i + 1]
      /\ Head(q) = q[1]
  OBVIOUS
<1>2. DOMAIN q = 1 .. Len(q) /\ DOMAIN r = 1 .. Len(q) - 1
  BY <1>1
<1> HIDE DEF r
<1>3. \A i, j \in 1 .. Len(q) : q[i] = q[j] => i = j
  BY <1>2 DEF IsInjective
<1>4. IsInjective(r)
  <2> SUFFICES ASSUME NEW i \in 1 .. Len(q) - 1, NEW j \in 1 .. Len(q) - 1, r[i] = r[j]
               PROVE  i = j
    BY <1>2 DEF IsInjective
  <2>1. q[i + 1] = q[j + 1] /\ i + 1 \in 1 .. Len(q) /\ j + 1 \in 1 .. Len(q)
    BY <1>1
  <2> QED
    BY <1>3, <2>1
<1>5. ASSUME NEW x \in ToSet(r) PROVE x \in ToSet(q) \ {Head(q)}
  <2>1. PICK i \in 1 .. Len(q) - 1 : x = r[i]
    BY <1>2 DEF ToSet
  <2>2. x = q[i + 1] /\ i + 1 \in 1 .. Len(q) /\ i + 1 # 1 /\ 1 \in 1 .. Len(q)
    BY <1>1, <2>1
  <2>3. x \in ToSet(q)
    BY <1>2, <2>2 DEF ToSet
  <2> QED
    BY <1>1, <1>3, <2>2, <2>3
<1>6. ASSUME NEW x \in ToSet(q), x # Head(q) PROVE x \in ToSet(r)
  <2>1. PICK i \in 1 .. Len(q) : x = q[i]
    BY <1>2 DEF ToSet
  <2>2. i # 1
    BY <1>1, <1>6, <2>1
  <2>3. i - 1 \in 1 .. Len(q) - 1 /\ (i - 1) + 1 = i
    BY <1>1, <2>2
  <2>4. r[i - 1] = x
    BY <1>1, <2>1, <2>3
  <2> QED
    BY <1>2, <2>3, <2>4 DEF ToSet
<1>7. Head(q) \in ToSet(q)
  BY <1>1, <1>2 DEF ToSet
<1> QED
  BY <1>1, <1>4, <1>5, <1>6, <1>7 DEF r

\* A caller keeps its place, joins the queue, leaves it when it is first, or goes from its
\* head to its end.
LEMMA Moves ==
  ASSUME Places, NEW c \in Callers,
         \A d \in Callers \ {c} : call'[d].pc = call[d].pc,
         readers' = {d \in Callers : call'[d].pc = "using"},
         \/ queue' = queue /\ (call[c].pc \in Waiting <=> call'[c].pc \in Waiting)
         \/ queue' = Append(queue, c) /\ call[c].pc \notin Waiting /\ call'[c].pc \in Waiting
         \/ First(c) /\ queue' = Tail(queue) /\ call'[c].pc \notin Waiting
         \/ First(c) /\ queue' = Append(Tail(queue), c) /\ call'[c].pc \in Waiting
  PROVE  Places'
<1> USE DEF Places
<1>1. CASE queue' = queue /\ (call[c].pc \in Waiting <=> call'[c].pc \in Waiting)
  BY <1>1
<1>2. CASE queue' = Append(queue, c) /\ call[c].pc \notin Waiting /\ call'[c].pc \in Waiting
  <2>1. c \notin ToSet(queue)
    BY <1>2
  <2>2. queue' \in Seq(Callers) /\ IsInjective(queue') /\ ToSet(queue') = ToSet(queue) \cup {c}
    BY <1>2, <2>1, Joins
  <2> QED
    BY <1>2, <2>2
<1>3. ASSUME First(c)
      PROVE  /\ Tail(queue) \in Seq(Callers) /\ IsInjective(Tail(queue))
             /\ ToSet(Tail(queue)) = ToSet(queue) \ {c} /\ c \in ToSet(queue)
  BY <1>3, Served DEF First
<1>4. CASE First(c) /\ queue' = Tail(queue) /\ call'[c].pc \notin Waiting
  BY <1>3, <1>4
<1>5. CASE First(c) /\ queue' = Append(Tail(queue), c) /\ call'[c].pc \in Waiting
  <2>1. PICK t : t = Tail(queue)
    OBVIOUS
  <2>2. /\ t \in Seq(Callers) /\ IsInjective(t) /\ c \notin ToSet(t)
        /\ ToSet(t) = ToSet(queue) \ {c}
    BY <1>3, <1>5, <2>1
  <2>3. queue' = Append(t, c)
    BY <1>5, <2>1
  <2>4. /\ Append(t, c) \in Seq(Callers) /\ IsInjective(Append(t, c))
        /\ ToSet(Append(t, c)) = ToSet(t) \cup {c}
    BY <2>2, Joins
  <2> QED
    BY <1>5, <2>2, <2>3, <2>4
<1> QED
  BY <1>1, <1>2, <1>4, <1>5
-----------------------------------------------------------------------------
\* Every step moves one caller.
LEMMA PlacesStep == Shapes /\ Places /\ [Next]_vars => Places'
<1> SUFFICES ASSUME Shapes, Places, [Next]_vars PROVE Places'
  OBVIOUS
<1> USE DEF Shapes, At, Waiting
<1>0. readers = {c \in Callers : call[c].pc = "using"}
  BY DEF Places
<1>1. ASSUME NEW c \in Callers, StartUse(c) PROVE Places'
  <2>1. /\ call[c].pc = "idle" /\ call'[c].pc = "wait"
        /\ \A d \in Callers \ {c} : call'[d] = call[d]
        /\ queue' = Append(queue, c) /\ readers' = readers
    BY <1>1 DEF StartUse, Idle
  <2> QED
    BY <1>0, <2>1, Moves
<1>2. ASSUME NEW c \in Callers, StartSet(c) PROVE Places'
  <2>1. /\ call[c].pc = "idle" /\ call'[c].pc = "set"
        /\ \A d \in Callers \ {c} : call'[d] = call[d]
        /\ queue' = queue /\ readers' = readers
    BY <1>2 DEF StartSet, Idle
  <2> QED
    BY <1>0, <2>1, Moves
<1>3. ASSUME NEW c \in Callers, Enter(c) PROVE Places'
  <2>1. call' = [call EXCEPT ![c] = [call[c] EXCEPT !.pc = "using", !.client = backend]]
    BY <1>3 DEF Enter
  <2>2. call'[c].pc = "using"
    BY <2>1 DEF Call
  <2>3. /\ First(c) /\ queue' = Tail(queue) /\ readers' = readers \cup {c}
        /\ \A d \in Callers \ {c} : call'[d] = call[d]
    BY <1>3, <2>1 DEF Enter
  <2> QED
    BY <1>0, <2>2, <2>3, Moves
<1>4. ASSUME NEW c \in Callers, Leave(c) PROVE Places'
  <2>1. /\ call[c].pc = "using" /\ call'[c].pc = "idle"
        /\ \A d \in Callers \ {c} : call'[d] = call[d]
        /\ queue' = queue /\ readers' = readers \ {c}
    BY <1>4 DEF Leave, Idle
  <2> QED
    BY <1>0, <2>1, Moves
<1>5. ASSUME NEW c \in Callers, LookupFails(c) PROVE Places'
  <2>1. call'[c] = [call[c] EXCEPT !.pc = "rotate", !.first = call[c].client, !.client = <<>>]
    BY <1>5 DEF LookupFails
  <2>2. call'[c].pc = "rotate"
    BY <2>1 DEF Call
  <2>3. /\ call[c].pc = "using" /\ queue' = queue /\ readers' = readers \ {c}
        /\ \A d \in Callers \ {c} : call'[d] = call[d]
    BY <1>5 DEF LookupFails
  <2> QED
    BY <1>0, <2>2, <2>3, Moves
<1>6. ASSUME NEW c \in Callers, AskedAgain(c) PROVE Places'
  <2>1. call'[c] = [call[c] EXCEPT !.pc = "wait", !.attempt = 3, !.client = <<>>]
    BY <1>6 DEF AskedAgain
  <2>2. call'[c].pc = "wait"
    BY <2>1 DEF Call
  <2>3. /\ call[c].pc = "using" /\ queue' = Append(queue, c) /\ readers' = readers \ {c}
        /\ \A d \in Callers \ {c} : call'[d] = call[d]
    BY <1>6 DEF AskedAgain
  <2> QED
    BY <1>0, <2>2, <2>3, Moves
<1>7. ASSUME NEW c \in Callers, Rotate(c) PROVE Places'
  <2>1. /\ call[c].pc = "rotate" /\ readers' = readers
        /\ \A d \in Callers \ {c} : call'[d] = call[d]
    BY <1>7 DEF Rotate
  <2>2. \/ /\ call'[c] = [call[c] EXCEPT !.pc = "set", !.list = Rotated(servers)]
           /\ queue' = queue
        \/ /\ call'[c] = [call[c] EXCEPT !.pc = "wait", !.attempt = 2]
           /\ queue' = Append(queue, c)
    BY <1>7 DEF Rotate
  <2>3. call[c] \in Call
    OBVIOUS
  <2>4. \/ call'[c].pc = "set" /\ queue' = queue
        \/ call'[c].pc = "wait" /\ queue' = Append(queue, c)
    BY <2>2, <2>3 DEF Call
  <2> QED
    BY <1>0, <2>1, <2>4, Moves
<1>8. ASSUME NEW c \in Callers, StoreList(c) PROVE Places'
  <2>1. call' = [Touched(c) EXCEPT ![c].pc = "made"]
    BY <1>8 DEF StoreList
  <2>2. call'[c].pc = "made"
    BY <2>1 DEF Touched, Call
  <2>3. \A d \in Callers \ {c} : call'[d].pc = call[d].pc
    BY <2>1 DEF Touched, Call
  <2>4. call[c].pc = "set" /\ queue' = queue /\ readers' = readers
    BY <1>8 DEF StoreList
  <2> QED
    BY <1>0, <2>2, <2>3, <2>4, Moves
<1>9. ASSUME NEW c \in Callers, MakeClient(c) PROVE Places'
  <2>1. /\ call[c].pc = "made" /\ readers' = readers
        /\ \A d \in Callers \ {c} : call'[d] = call[d]
    BY <1>9 DEF MakeClient
  <2>2. \/ call'[c] = [call[c] EXCEPT !.pc = "swap"] /\ queue' = Append(queue, c)
        \/ call'[c] = Idle /\ queue' = queue
    BY <1>9 DEF MakeClient
  <2>3. \/ call'[c].pc = "swap" /\ queue' = Append(queue, c)
        \/ call'[c].pc = "idle" /\ queue' = queue
    BY <2>2 DEF Call, Idle
  <2> QED
    BY <1>0, <2>1, <2>3, Moves
<1>10. ASSUME NEW c \in Callers, Swap(c) PROVE Places'
  <2>1. /\ call[c].pc = "swap" /\ readers' = readers /\ First(c)
        /\ \A d \in Callers \ {c} : call'[d] = call[d]
    BY <1>10 DEF Swap, Continue
  <2>2. CASE call[c].kind = "set"
    <3>1. call'[c].pc = "idle" /\ queue' = Tail(queue)
      BY <1>10, <2>2 DEF Swap, Continue, Idle
    <3> QED
      BY <1>0, <2>1, <3>1, Moves
  <2>3. CASE call[c].kind # "set"
    <3>1. /\ call'[c] = [call[c] EXCEPT !.pc = "wait", !.attempt = 2, !.list = <<>>]
          /\ queue' = Append(Tail(queue), c)
      BY <1>10, <2>3 DEF Swap, Continue
    <3>2. call'[c].pc = "wait"
      BY <3>1 DEF Call
    <3>3. readers' = {d \in Callers : call'[d].pc = "using"}
      BY <1>0, <2>1, <3>2
    <3>4. First(c) /\ queue' = Append(Tail(queue), c) /\ call'[c].pc \in Waiting
      BY <2>1, <3>1, <3>2
    <3>5. \A d \in Callers \ {c} : call'[d].pc = call[d].pc
      BY <2>1
    <3> HIDE DEF Waiting, Shapes, At
    <3> QED
      BY <3>3, <3>4, <3>5, Moves
  <2> QED
    BY <2>2, <2>3
<1>11. CASE UNCHANGED vars \/ \E c \in Callers : Hang(c) \/ Wake(c)
  BY <1>11 DEF vars, Hang, Wake, Places
<1> QED
  BY <1>1, <1>2, <1>3, <1>4, <1>5, <1>6, <1>7, <1>8, <1>9, <1>10, <1>11
     DEF Next, Step, Callers

-----------------------------------------------------------------------------
(* The lists: each one that is stored or used is a rotation of one that the  *)
(* application gave, is not empty, and the client's parses.                  *)

Parsed(l) == \A i \in 1 .. Len(l) : Parses(l[i])
SomeList == AnyList \ {<<>>}
Listed == AnyList \cup {<<>>}

\* Of one call: what it has to set is not empty, and parses once its client is made.
WellListed(k) ==
    /\ k.list \in Listed /\ k.client \in Listed /\ k.first \in Listed
    /\ k.pc \in {"set", "made", "swap"} => k.list # <<>>
    /\ k.pc = "swap" => Parsed(k.list)

ListsKnown ==
    /\ servers \in SomeList
    /\ backend \in SomeList /\ Parsed(backend)
    /\ \A c \in Callers : WellListed(call[c])

\* Two sequences, one after the other.
LEMMA OneAfterOther ==
  ASSUME NEW S, NEW a \in Seq(S), NEW b \in Seq(S)
  PROVE  /\ a \o b \in Seq(S)
         /\ Len(a \o b) = Len(a) + Len(b)
         /\ \A i \in 1 .. Len(a) : (a \o b)[i] = a[i]
         /\ \A i \in Len(a) + 1 .. Len(a) + Len(b) : (a \o b)[i] = b[i - Len(a)]
  OBVIOUS

\* RotatedBy(list, k) begins after the first k servers of the list.
LEMMA RotatedByLine ==
  ASSUME NEW S, NEW list \in Seq(S), NEW k \in 0 .. Len(list)
  PROVE  /\ RotatedBy(list, k) \in Seq(S)
         /\ Len(RotatedBy(list, k)) = Len(list)
         /\ \A i \in 1 .. Len(list) - k : RotatedBy(list, k)[i] = list[i + k]
         /\ \A i \in Len(list) - k + 1 .. Len(list) :
               RotatedBy(list, k)[i] = list[i - (Len(list) - k)]
<1>1. Len(list) \in Nat /\ k \in Nat /\ k <= Len(list)
  OBVIOUS
<1>2. PICK front : front = SubSeq(list, 1, k)
  OBVIOUS
<1>3. PICK back : back = SubSeq(list, k + 1, Len(list))
  OBVIOUS
<1>4. front \in Seq(S) /\ Len(front) = k /\ \A i \in 1 .. k : front[i] = list[i]
  BY <1>1, <1>2
<1>5. /\ back \in Seq(S) /\ Len(back) = Len(list) - k
      /\ \A i \in 1 .. Len(list) - k : back[i] = list[i + k]
  <2>1. back \in Seq(S)
    BY <1>1, <1>3
  <2>2. Len(back) = Len(list) - k
    BY <1>1, <1>3
  <2>3. ASSUME NEW i \in 1 .. Len(list) - k PROVE back[i] = list[i + k]
    BY <1>1, <1>3
  <2> QED
    BY <2>1, <2>2, <2>3
<1>6. RotatedBy(list, k) = back \o front
  BY <1>2, <1>3 DEF RotatedBy
<1>7. /\ back \o front \in Seq(S)
      /\ Len(back \o front) = Len(list)
      /\ \A i \in 1 .. Len(list) - k : (back \o front)[i] = back[i]
      /\ \A i \in Len(list) - k + 1 .. Len(list) :
            (back \o front)[i] = front[i - (Len(list) - k)]
  <2>1. /\ back \o front \in Seq(S)
        /\ Len(back \o front) = Len(back) + Len(front)
        /\ \A i \in 1 .. Len(back) : (back \o front)[i] = back[i]
        /\ \A i \in Len(back) + 1 .. Len(back) + Len(front) :
              (back \o front)[i] = front[i - Len(back)]
    BY <1>4, <1>5, OneAfterOther, Zenon
  <2>2. Len(back) = Len(list) - k /\ Len(front) = k /\ Len(list) = (Len(list) - k) + k
    BY <1>1, <1>4, <1>5
  <2> QED
    BY <2>1, <2>2
<1>8. ASSUME NEW i \in Len(list) - k + 1 .. Len(list)
      PROVE  front[i - (Len(list) - k)] = list[i - (Len(list) - k)]
  <2>1. i - (Len(list) - k) \in 1 .. k
    BY <1>1
  <2> QED
    BY <1>4, <2>1
<1> QED
  BY <1>5, <1>6, <1>7, <1>8

\* A rotation of a rotation is a rotation.
LEMMA RotatedAgain ==
  ASSUME NEW l \in AnyList, Len(l) > 1
  PROVE  Rotated(l) \in SomeList
<1>0. PICK base \in Lists \cup {Default} :
           \E k \in 0 .. Len(base) : l = RotatedBy(base, k)
  BY DEF AnyList
<1>1. PICK k \in 0 .. Len(base) : l = RotatedBy(base, k)
  BY <1>0
<1>2. base \in Line
  BY ListsAreLines
<1>3. base \in Seq(Addresses) /\ Len(base) \in Nat
  BY <1>2 DEF Line
<1>4. /\ l \in Seq(Addresses) /\ Len(l) = Len(base) /\ Len(base) > 1
      /\ \A i \in 1 .. Len(base) - k : l[i] = base[i + k]
      /\ \A i \in Len(base) - k + 1 .. Len(base) : l[i] = base[i - (Len(base) - k)]
  BY <1>1, <1>3, RotatedByLine
<1> DEFINE n == IF k = Len(base) THEN 1 ELSE k + 1
<1>5. n \in 0 .. Len(base)
  BY <1>3, <1>4
<1> DEFINE r == RotatedBy(base, n)
<1>6. /\ r \in Seq(Addresses) /\ Len(r) = Len(base)
      /\ \A i \in 1 .. Len(base) - n : r[i] = base[i + n]
      /\ \A i \in Len(base) - n + 1 .. Len(base) : r[i] = base[i - (Len(base) - n)]
  <2> HIDE DEF n
  <2> QED
    BY <1>3, <1>5, RotatedByLine
<1> HIDE DEF r
<1>7. /\ Rotated(l) \in Seq(Addresses) /\ Len(Rotated(l)) = Len(base)
      /\ \A i \in 1 .. Len(base) :
            Rotated(l)[i] = IF i < Len(base) THEN l[i + 1] ELSE l[1]
  BY <1>4, RotatedLine
<1>8. ASSUME NEW i \in 1 .. Len(base) PROVE Rotated(l)[i] = r[i]
  <2>1. CASE k = Len(base)
    <3>1. n = 1 /\ l[1] = base[1] /\ (i < Len(base) => l[i + 1] = base[i + 1])
      BY <1>3, <1>4, <2>1
    <3>2. r[i] = IF i < Len(base) THEN base[i + 1] ELSE base[1]
      BY <1>3, <1>4, <1>6, <3>1
    <3> QED
      BY <1>7, <3>1, <3>2
  <2>2. CASE k # Len(base)
    <3>1. n = k + 1 /\ k \in Nat /\ k < Len(base) /\ Len(base) \in Nat
      BY <1>3, <2>2
    <3>2. CASE i < Len(base) - k
      <4>1. Rotated(l)[i] = l[i + 1] /\ i + 1 \in 1 .. Len(base) - k
        BY <1>7, <3>1, <3>2
      <4>2. l[i + 1] = base[(i + 1) + k] /\ i \in 1 .. Len(base) - n
        BY <1>4, <3>1, <3>2, <4>1
      <4>3. r[i] = base[i + n] /\ (i + 1) + k = i + n
        BY <1>6, <3>1, <4>2
      <4> QED
        BY <4>1, <4>2, <4>3
    <3>3. CASE i >= Len(base) - k /\ i < Len(base)
      <4>1. Rotated(l)[i] = l[i + 1] /\ i + 1 \in Len(base) - k + 1 .. Len(base)
        BY <1>7, <3>1, <3>3
      <4>2. /\ l[i + 1] = base[(i + 1) - (Len(base) - k)]
            /\ i \in Len(base) - n + 1 .. Len(base)
        BY <1>4, <3>1, <3>3, <4>1
      <4>3. /\ r[i] = base[i - (Len(base) - n)]
            /\ (i + 1) - (Len(base) - k) = i - (Len(base) - n)
        BY <1>6, <3>1, <4>2
      <4> QED
        BY <4>1, <4>2, <4>3
    <3>4. CASE i = Len(base)
      <4>1. Rotated(l)[i] = l[1] /\ l[1] = base[1 + k]
        BY <1>4, <1>7, <3>1, <3>4
      <4>2. i \in Len(base) - n + 1 .. Len(base) /\ i - (Len(base) - n) = 1 + k
        BY <3>1, <3>4
      <4>3. r[i] = base[1 + k]
        BY <1>6, <4>2
      <4> QED
        BY <4>1, <4>3
    <3> QED
      BY <3>1, <3>2, <3>3, <3>4
  <2> QED
    BY <2>1, <2>2
<1>9. Rotated(l) = RotatedBy(base, n)
  <2>1. Rotated(l) = r
    BY <1>6, <1>7, <1>8, <1>3
  <2> QED
    BY <2>1 DEF r
<1>10. Rotated(l) \in AnyList
  <2> HIDE DEF n
  <2> QED
    BY <1>5, <1>9 DEF AnyList
<1>11. Rotated(l) # <<>>
  BY <1>4, <1>7
<1> QED
  BY <1>10, <1>11 DEF SomeList

\* A list of the application is its own rotation by nothing.
LEMMA GivenIsListed == \A list \in Lists \cup {Default} : list \in AnyList
<1> SUFFICES ASSUME NEW list \in Lists \cup {Default} PROVE list \in AnyList
  OBVIOUS
<1>1. list \in Seq(Addresses) /\ 0 \in 0 .. Len(list)
  BY ListsAreLines DEF Line
<1>2. RotatedBy(list, 0) = list
  <2>1. /\ RotatedBy(list, 0) \in Seq(Addresses) /\ Len(RotatedBy(list, 0)) = Len(list)
        /\ \A i \in 1 .. Len(list) : RotatedBy(list, 0)[i] = list[i]
    BY <1>1 DEF RotatedBy
  <2> QED
    BY <1>1, <2>1
<1> QED
  BY <1>1, <1>2 DEF AnyList

LEMMA IdleWellListed == WellListed(Idle)
  BY DEF WellListed, Idle, Listed

\* Every step keeps what is known of the lists: a list is set only when it is not empty,
\* and the client is replaced by one of a list that parses.
LEMMA ListsStep == Shapes /\ ListsKnown /\ [Next]_vars => ListsKnown'
<1> SUFFICES ASSUME Shapes, ListsKnown, [Next]_vars PROVE ListsKnown'
  OBVIOUS
<1> USE DEF Shapes, At
<1>a. /\ servers \in SomeList /\ backend \in SomeList /\ Parsed(backend)
      /\ \A c \in Callers : WellListed(call[c]) /\ call[c] \in Call
  BY DEF ListsKnown
<1>b. <<>> \in Listed /\ SomeList \subseteq Listed
  BY DEF Listed, SomeList
<1>c. ASSUME NEW c \in Callers, \A d \in Callers \ {c} : call'[d] = call[d], WellListed(call'[c])
      PROVE  \A d \in Callers : WellListed(call'[d])
  BY <1>a, <1>c
<1>1. ASSUME NEW c \in Callers, StartUse(c) PROVE ListsKnown'
  <2>1. /\ UNCHANGED <<servers, backend>> /\ \A d \in Callers \ {c} : call'[d] = call[d]
        /\ call'[c].pc = "wait" /\ call'[c].list = <<>> /\ call'[c].client = <<>>
        /\ call'[c].first = <<>>
    BY <1>1 DEF StartUse, Idle
  <2>2. WellListed(call'[c])
    BY <1>b, <2>1 DEF WellListed
  <2> QED
    BY <1>a, <1>c, <2>1, <2>2 DEF ListsKnown
<1>2. ASSUME NEW c \in Callers, StartSet(c) PROVE ListsKnown'
  <2>1. PICK list \in Lists \ {<<>>} :
           call' = [call EXCEPT ![c] = [Idle EXCEPT !.pc = "set", !.kind = "set", !.list = list]]
    BY <1>2 DEF StartSet
  <2>2. /\ UNCHANGED <<servers, backend>> /\ \A d \in Callers \ {c} : call'[d] = call[d]
        /\ call'[c].pc = "set" /\ call'[c].list = list /\ call'[c].client = <<>>
        /\ call'[c].first = <<>>
    BY <1>2, <2>1 DEF StartSet, Idle
  <2>3. list \in Listed /\ list # <<>>
    BY GivenIsListed DEF Listed
  <2>4. WellListed(call'[c])
    BY <1>b, <2>2, <2>3 DEF WellListed
  <2> QED
    BY <1>a, <1>c, <2>2, <2>4 DEF ListsKnown
<1>3. ASSUME NEW c \in Callers, Enter(c) PROVE ListsKnown'
  <2>1. call' = [call EXCEPT ![c] = [call[c] EXCEPT !.pc = "using", !.client = backend]]
    BY <1>3 DEF Enter
  <2>2. /\ UNCHANGED <<servers, backend>> /\ \A d \in Callers \ {c} : call'[d] = call[d]
        /\ call'[c] = [call[c] EXCEPT !.pc = "using", !.client = backend]
    BY <1>3, <2>1 DEF Enter
  <2>3. /\ call'[c].pc = "using" /\ call'[c].list = call[c].list /\ call'[c].client = backend
        /\ call'[c].first = call[c].first
    BY <2>2 DEF Call
  <2>4. WellListed(call'[c])
    BY <1>a, <1>b, <2>3 DEF WellListed
  <2> QED
    BY <1>a, <1>c, <2>2, <2>4 DEF ListsKnown
<1>4. ASSUME NEW c \in Callers, Leave(c) PROVE ListsKnown'
  <2>1. /\ UNCHANGED <<servers, backend>> /\ \A d \in Callers \ {c} : call'[d] = call[d]
        /\ call'[c] = Idle
    BY <1>4 DEF Leave
  <2> QED
    BY <1>a, <1>c, <2>1, IdleWellListed DEF ListsKnown
<1>5. ASSUME NEW c \in Callers, LookupFails(c) PROVE ListsKnown'
  <2>1. /\ UNCHANGED <<servers, backend>> /\ \A d \in Callers \ {c} : call'[d] = call[d]
        /\ call'[c] = [call[c] EXCEPT !.pc = "rotate", !.first = call[c].client,
                                      !.client = <<>>]
    BY <1>5 DEF LookupFails
  <2>2. /\ call'[c].pc = "rotate" /\ call'[c].list = call[c].list /\ call'[c].client = <<>>
        /\ call'[c].first = call[c].client
    BY <2>1 DEF Call
  <2>3. WellListed(call'[c])
    BY <1>a, <1>b, <2>2 DEF WellListed
  <2> QED
    BY <1>a, <1>c, <2>1, <2>3 DEF ListsKnown
<1>6. ASSUME NEW c \in Callers, AskedAgain(c) PROVE ListsKnown'
  <2>1. /\ UNCHANGED <<servers, backend>> /\ \A d \in Callers \ {c} : call'[d] = call[d]
        /\ call'[c] = [call[c] EXCEPT !.pc = "wait", !.attempt = 3, !.client = <<>>]
    BY <1>6 DEF AskedAgain
  <2>2. /\ call'[c].pc = "wait" /\ call'[c].list = call[c].list /\ call'[c].client = <<>>
        /\ call'[c].first = call[c].first
    BY <2>1 DEF Call
  <2>3. WellListed(call'[c])
    BY <1>a, <1>b, <2>2 DEF WellListed
  <2> QED
    BY <1>a, <1>c, <2>1, <2>3 DEF ListsKnown
<1>7. ASSUME NEW c \in Callers, Rotate(c) PROVE ListsKnown'
  <2>1. UNCHANGED <<servers, backend>> /\ \A d \in Callers \ {c} : call'[d] = call[d]
    BY <1>7 DEF Rotate
  <2>2. CASE Len(servers) > 1
    <3>1. call'[c] = [call[c] EXCEPT !.pc = "set", !.list = Rotated(servers)]
      BY <1>7, <2>2 DEF Rotate
    <3>2. /\ call'[c].pc = "set" /\ call'[c].list = Rotated(servers)
          /\ call'[c].client = call[c].client /\ call'[c].first = call[c].first
      BY <3>1, <1>a DEF Call
    <3>3. Rotated(servers) \in SomeList
      BY <1>a, <2>2, RotatedAgain DEF SomeList
    <3>4. Rotated(servers) \in Listed /\ Rotated(servers) # <<>>
      BY <3>3 DEF SomeList, Listed
    <3>5. WellListed(call'[c])
      BY <1>a, <3>2, <3>4 DEF WellListed
    <3> QED
      BY <1>a, <1>c, <2>1, <3>5 DEF ListsKnown
  <2>3. CASE ~(Len(servers) > 1)
    <3>1. call'[c] = [call[c] EXCEPT !.pc = "wait", !.attempt = 2]
      BY <1>7, <2>3 DEF Rotate
    <3>2. /\ call'[c].pc = "wait" /\ call'[c].list = call[c].list
          /\ call'[c].client = call[c].client /\ call'[c].first = call[c].first
      BY <3>1, <1>a DEF Call
    <3>3. WellListed(call'[c])
      BY <1>a, <3>2 DEF WellListed
    <3> QED
      BY <1>a, <1>c, <2>1, <3>3 DEF ListsKnown
  <2> QED
    BY <2>2, <2>3
<1>8. ASSUME NEW c \in Callers, StoreList(c) PROVE ListsKnown'
  <2>1. call' = [Touched(c) EXCEPT ![c].pc = "made"] /\ call[c].pc = "set"
    BY <1>8 DEF StoreList
  <2>2. /\ call'[c].pc = "made" /\ call'[c].list = call[c].list
        /\ call'[c].client = call[c].client /\ call'[c].first = call[c].first
    BY <1>a, <2>1 DEF Touched, Call
  <2>3. \A d \in Callers \ {c} :
           /\ call'[d].pc = call[d].pc /\ call'[d].list = call[d].list
           /\ call'[d].client = call[d].client /\ call'[d].first = call[d].first
    BY <1>a, <2>1 DEF Touched, Call
  <2>4. call[c].list \in SomeList
    BY <1>a, <2>1 DEF WellListed, Listed, SomeList
  <2>5. \A d \in Callers : WellListed(call'[d])
    BY <1>a, <2>1, <2>2, <2>3 DEF WellListed
  <2>6. servers' = call[c].list /\ backend' = backend
    BY <1>8 DEF StoreList
  <2> QED
    BY <1>a, <2>4, <2>5, <2>6 DEF ListsKnown
<1>9. ASSUME NEW c \in Callers, MakeClient(c) PROVE ListsKnown'
  <2>1. /\ UNCHANGED <<servers, backend>> /\ \A d \in Callers \ {c} : call'[d] = call[d]
        /\ call[c].pc = "made"
    BY <1>9 DEF MakeClient
  <2>2. \/ Parsed(call[c].list) /\ call'[c] = [call[c] EXCEPT !.pc = "swap"]
        \/ call'[c] = Idle
    BY <1>9 DEF MakeClient, Parsed
  <2>3. CASE Parsed(call[c].list) /\ call'[c] = [call[c] EXCEPT !.pc = "swap"]
    <3>1. /\ call'[c].pc = "swap" /\ call'[c].list = call[c].list
          /\ call'[c].client = call[c].client /\ call'[c].first = call[c].first
      BY <1>a, <2>3 DEF Call
    <3>2. WellListed(call'[c])
      BY <1>a, <2>1, <2>3, <3>1 DEF WellListed
    <3> QED
      BY <1>a, <1>c, <2>1, <3>2 DEF ListsKnown
  <2>4. CASE call'[c] = Idle
    BY <1>a, <1>c, <2>1, <2>4, IdleWellListed DEF ListsKnown
  <2> QED
    BY <2>2, <2>3, <2>4
<1>10. ASSUME NEW c \in Callers, Swap(c) PROVE ListsKnown'
  <2>1. /\ servers' = servers /\ backend' = call[c].list /\ call[c].pc = "swap"
        /\ \A d \in Callers \ {c} : call'[d] = call[d]
    BY <1>10 DEF Swap, Continue
  <2>2. call[c].list \in SomeList /\ Parsed(call[c].list)
    BY <1>a, <2>1 DEF WellListed, Listed, SomeList
  <2>3. CASE call[c].kind = "set"
    <3>1. call'[c] = Idle
      BY <1>10, <2>3 DEF Swap, Continue
    <3> QED
      BY <1>a, <1>c, <2>1, <2>2, <3>1, IdleWellListed DEF ListsKnown
  <2>4. CASE call[c].kind # "set"
    <3>1. call'[c] = [call[c] EXCEPT !.pc = "wait", !.attempt = 2, !.list = <<>>]
      BY <1>10, <2>4 DEF Swap, Continue
    <3>2. /\ call'[c].pc = "wait" /\ call'[c].list = <<>>
          /\ call'[c].client = call[c].client /\ call'[c].first = call[c].first
      BY <3>1, <1>a DEF Call
    <3>3. WellListed(call'[c])
      BY <1>a, <1>b, <3>2 DEF WellListed
    <3> QED
      BY <1>a, <1>c, <2>1, <2>2, <3>3 DEF ListsKnown
  <2> QED
    BY <2>3, <2>4
<1>11. CASE UNCHANGED vars \/ \E c \in Callers : Hang(c) \/ Wake(c)
  BY <1>11 DEF vars, Hang, Wake, ListsKnown
<1> QED
  BY <1>1, <1>2, <1>3, <1>4, <1>5, <1>6, <1>7, <1>8, <1>9, <1>10, <1>11
     DEF Next, Step, Callers

\* At the start nobody calls, and the client is of the default list, which parses.
LEMMA StartInPlace == Init => Places /\ ListsKnown
<1> SUFFICES ASSUME Init PROVE Places /\ ListsKnown
  OBVIOUS
<1>1. /\ readers = {} /\ queue = <<>> /\ servers = Default /\ backend = Default
      /\ \A c \in Callers : call[c] = Idle
  BY DEF Init
<1>2. ToSet(queue) = {} /\ IsInjective(queue) /\ queue \in Seq(Callers)
  BY <1>1 DEF ToSet, IsInjective
<1>3. Places
  BY <1>1, <1>2 DEF Places, Waiting, Idle
<1>4. Default \in SomeList /\ Parsed(Default)
  BY GivenIsListed, ServerAssumption DEF SomeList, Parsed
<1>5. \A c \in Callers : WellListed(call[c])
  BY <1>1, IdleWellListed
<1> QED
  BY <1>1, <1>3, <1>4, <1>5 DEF ListsKnown

\* A call that hangs holds the lock.
HungRead == hung \subseteq readers

LEMMA HungStep == Places /\ HungRead /\ [Next]_vars => HungRead'
<1> SUFFICES ASSUME Places, HungRead, [Next]_vars PROVE HungRead'
  OBVIOUS
<1>1. ASSUME NEW c \in Callers, Leave(c) \/ LookupFails(c) \/ AskedAgain(c) PROVE HungRead'
  BY <1>1 DEF Leave, LookupFails, AskedAgain, HungRead
<1>2. ASSUME NEW c \in Callers, Enter(c) PROVE HungRead'
  BY <1>2 DEF Enter, HungRead
<1>3. ASSUME NEW c \in Callers, Hang(c) \/ Wake(c) PROVE HungRead'
  BY <1>3 DEF Hang, Wake, At, HungRead, Places
<1>4. ASSUME UNCHANGED <<readers, hung>> PROVE HungRead'
  BY <1>4 DEF HungRead
<1>5. ASSUME NEW c \in Callers,
             StartUse(c) \/ StartSet(c) \/ Rotate(c) \/ StoreList(c) \/ MakeClient(c) \/ Swap(c)
      PROVE  UNCHANGED <<readers, hung>>
  BY <1>5 DEF StartUse, StartSet, Rotate, StoreList, MakeClient, Swap
<1>6. UNCHANGED vars => UNCHANGED <<readers, hung>>
  BY DEF vars
<1> QED
  BY <1>1, <1>2, <1>3, <1>4, <1>5, <1>6 DEF Next, Step, Callers

\* The variables keep their types: whoever waits for the client's lock is in the queue once
\* and does not hold it, every list in use is a rotation of a given one and never empty,
\* and the client is of addresses that parse (session.rs:239-330).
THEOREM TypeCorrect == Spec => []TypeOK
<1> DEFINE Inv == Shapes /\ Places /\ ListsKnown /\ HungRead
<1>1. Init => Inv
  <2>1. Init => HungRead
    BY DEF Init, HungRead
  <2> QED
    BY <2>1, Start, StartInPlace
<1>2. Inv /\ [Next]_vars => Inv'
  BY ShapesStep, PlacesStep, ListsStep, HungStep
<1>3. Inv => TypeOK
  <2> SUFFICES ASSUME Inv PROVE TypeOK
    OBVIOUS
  <2>1. servers \in AnyList \ {<<>>} /\ backend \in AnyList \ {<<>>}
    BY DEF ListsKnown, SomeList
  <2>2. \A i \in 1 .. Len(backend) : Parses(backend[i])
    BY DEF ListsKnown, Parsed
  <2>3. readers \subseteq Callers /\ hung \subseteq readers /\ IsInjective(queue)
    BY DEF Places, HungRead
  <2>4. ToSet(queue) \subseteq Callers \ readers
    <3>1. ToSet(queue) \subseteq Callers
      BY DEF Places, ToSet
    <3>2. \A c \in ToSet(queue) : call[c].pc # "using"
      BY <3>1 DEF Places, Waiting
    <3> QED
      BY <3>1, <3>2 DEF Places
  <2>5. \A c \in Callers :
           call[c] \in [pc : {"idle", "wait", "using", "rotate", "set", "made", "swap"},
                        kind : {"use", "set", "send"}, attempt : 0 .. 3,
                        list : AnyList \cup {<<>>}, client : AnyList \cup {<<>>},
                        first : AnyList \cup {<<>>}, alone : BOOLEAN]
    BY DEF Shapes, Call, ListsKnown, WellListed, Listed
  <2>6. mixed \in BOOLEAN /\ call \in [Callers -> Call]
    BY DEF Shapes
  <2> QED
    BY <2>1, <2>2, <2>3, <2>4, <2>5, <2>6 DEF TypeOK
<1> HIDE DEF Inv
<1> QED
  BY <1>1, <1>2, <1>3, PTL DEF Spec
=============================================================================
