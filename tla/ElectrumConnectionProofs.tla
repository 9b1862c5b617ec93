----------------------- MODULE ElectrumConnectionProofs -----------------------
(***************************************************************************)
(* The invariants of ElectrumConnection, proved for all callers and        *)
(* bounds.  Numbers are the hinge of the first: a request and the call     *)
(* that made it bear the same two.  The last needs a measure of the harm   *)
(* that is still to come: what is wrong with the line in either direction, *)
(* and the call whose request was run together with another's.             *)
(***************************************************************************)
EXTENDS ElectrumConnection, TLAPS

Active(c) == At(c, "writing") \/ At(c, "reading")

\* Numbers are taken in turn, and answers bear those of the request.
Numbered ==
    /\ nextId = begun + 3
    /\ \A r \in asked : r.id = r.nr + 2
    /\ \A c \in Callers : /\ ~At(c, "idle") => call[c].id = call[c].nr + 2
                          /\ ~At(c, "idle") => call[c].got = 0
                          /\ call[c].lost => At(c, "reading")

\* The calls that may still fail for what has gone wrong.
LostCall == \E c \in Callers : call[c].lost
Debt == (IF junk THEN 2 ELSE 0) + (IF LostCall THEN 2 ELSE 0) + (IF torn THEN 1 ELSE 0)
Paid == open => failed + Debt <= 3 * slow

IInv == TypeOK /\ Numbered /\ AnswerIsMine /\ LockIsHeld /\ Paid

-----------------------------------------------------------------------------
\* The types alone, and what TypeOK says of numbers.
Shapes ==
    /\ nextId \in Nat /\ begun \in Nat /\ slow \in Nat /\ failed \in Nat
    /\ lock \subseteq Callers
    /\ call \in [Callers -> Call]
    /\ asked \subseteq Request
    /\ junk \in BOOLEAN /\ torn \in BOOLEAN /\ open \in BOOLEAN
Bounds ==
    /\ \A r \in asked : r.id < nextId /\ r.nr <= begun
    /\ \A c \in Callers : call[c].id < nextId /\ call[c].nr <= begun

\* A record of a call, and one that fails, leave calls what they are.
LEMMA CallTypes ==
    ASSUME Shapes, NEW c \in Callers
    PROVE  /\ call[c] \in Call
           /\ Idle \in Call
           /\ \A k \in Call : [call EXCEPT ![c] = k] \in [Callers -> Call]
           /\ Fails(c) => call' \in [Callers -> Call] /\ lock' \subseteq Callers
                          /\ failed' \in Nat
<1>1. Idle \in Call
  BY DEF Idle, Call
<1>2. call[c] \in Call /\ \A k \in Call : [call EXCEPT ![c] = k] \in [Callers -> Call]
  BY DEF Shapes
<1>3. Fails(c) => lock' \subseteq Callers /\ failed' \in Nat
  BY DEF Fails, Shapes
<1> QED
  BY <1>1, <1>2, <1>3 DEF Fails

\* So does one that has written its request.
LEMMA Reads ==
    ASSUME NEW k \in Call, NEW b \in BOOLEAN
    PROVE  [k EXCEPT !.pc = "reading", !.lost = b] \in Call
  BY DEF Call

\* The types are kept by every step.
LEMMA ShapesStep == Shapes /\ [Next]_vars => Shapes'
<1> SUFFICES ASSUME Shapes, [Next]_vars PROVE Shapes'
  OBVIOUS
<1>1. ASSUME NEW c \in Callers, Begin(c) PROVE Shapes'
  <2> DEFINE k == [Idle EXCEPT !.pc = "locking", !.id = nextId, !.nr = begun + 1]
  <2>0. nextId \in Nat /\ begun + 1 \in Nat
    BY DEF Shapes
  <2>1. k \in Call
    BY <2>0 DEF Idle, Call
  <2>2. call' \in [Callers -> Call]
    BY <1>1, <2>1, CallTypes DEF Begin
  <2> QED
    BY <1>1, <2>2 DEF Begin, Counted, Shapes
<1>2. ASSUME NEW c \in Callers, Lock(c) PROVE Shapes'
  <2>1. call' \in [Callers -> Call]
    BY <1>2 DEF Lock, Shapes, Call
  <2> QED
    BY <1>2, <2>1 DEF Lock, Shapes
<1>3. ASSUME NEW c \in Callers, Write(c) PROVE Shapes'
  <2>1. call' \in [Callers -> Call]
    <3>1. call' = [call EXCEPT ![c] = [call[c] EXCEPT !.pc = "reading", !.lost = junk]]
      BY <1>3 DEF Write
    <3>2. [call[c] EXCEPT !.pc = "reading", !.lost = junk] \in Call
      BY CallTypes, Reads DEF Shapes
    <3> QED
      BY <3>1, <3>2, CallTypes
  <2>2. [id |-> call[c].id, nr |-> call[c].nr] \in Request
    BY CallTypes DEF Call, Request
  <2>3. asked' \subseteq Request
    BY <1>3, <2>2 DEF Write, Shapes
  <2> QED
    BY <1>3, <2>1, <2>3 DEF Write, Shapes
<1>4. ASSUME NEW c \in Callers, ReadLine(c) PROVE Shapes'
  <2> PICK r \in asked : /\ asked' = asked \ {r}
                         /\ IF r.id = call[c].id THEN Returns(c, r)
                            ELSE UNCHANGED <<lock, call, failed>>
    BY <1>4 DEF ReadLine
  <2>1. [Idle EXCEPT !.nr = call[c].nr, !.got = r.nr] \in Call
    BY CallTypes DEF Shapes, Idle, Call, Request
  <2>2. call' \in [Callers -> Call] /\ lock' \subseteq Callers /\ failed' \in Nat
    BY <2>1, CallTypes DEF Returns, Shapes
  <2> QED
    BY <1>4, <2>2 DEF ReadLine, Shapes
<1>5. ASSUME NEW c \in Callers, Fails(c), asked' \subseteq asked, slow' \in {slow, slow + 1},
             junk' \in BOOLEAN, torn' \in BOOLEAN, UNCHANGED <<nextId, open, begun>>
      PROVE  Shapes'
  BY <1>5, CallTypes DEF Shapes
<1>6. ASSUME NEW c \in Callers, ReadTorn(c) PROVE Shapes'
  BY <1>5, <1>6 DEF ReadTorn, Shapes
<1>7. ASSUME NEW c \in Callers, TimeoutLocking(c) PROVE Shapes'
  BY <1>5, <1>7 DEF TimeoutLocking, CountSlow, Shapes
<1>8. ASSUME NEW c \in Callers, TimeoutWriting(c) PROVE Shapes'
  BY <1>5, <1>8 DEF TimeoutWriting, CountSlow, Shapes
<1>9. ASSUME NEW c \in Callers, TimeoutReading(c) PROVE Shapes'
  BY <1>5, <1>9 DEF TimeoutReading, CountSlow, Shapes
<1>10. ASSUME NEW c \in Callers, Broken(c) PROVE Shapes'
  BY <1>5, <1>10 DEF Broken, Shapes
<1>11. CASE Close
  BY <1>11 DEF Close, Shapes
<1>12. CASE UNCHANGED vars
  BY <1>12 DEF vars, Shapes
<1> QED
  BY <1>1, <1>2, <1>3, <1>4, <1>6, <1>7, <1>8, <1>9, <1>10, <1>11, <1>12 DEF Next

\* Requests and calls bear numbers that have been given.
LEMMA BoundsStep == Shapes /\ Bounds /\ [Next]_vars => Bounds'
<1> SUFFICES ASSUME Shapes, Bounds, [Next]_vars PROVE Bounds'
  OBVIOUS
<1> USE DEF Bounds
<1>0. (nextId \in Nat /\ begun \in Nat /\ nextId > 0) \/ Callers = {}
  BY DEF Shapes, Call
<1>1. ASSUME NEW c \in Callers, Begin(c) PROVE Bounds'
  BY <1>1 DEF Begin, Counted, Shapes, Call, Request, Idle
<1>2. ASSUME NEW c \in Callers, Lock(c) PROVE Bounds'
  BY <1>2 DEF Lock, Shapes, Call
<1>3. ASSUME NEW c \in Callers, Write(c) PROVE Bounds'
  BY <1>3 DEF Write, Shapes, Call
<1>4. ASSUME NEW c \in Callers, ReadLine(c) PROVE Bounds'
  <2>1. UNCHANGED <<nextId, begun>> /\ asked' \subseteq asked
    BY <1>4 DEF ReadLine
  <2>2. \/ UNCHANGED call
        \/ \E n : call' = [call EXCEPT ![c] = [Idle EXCEPT !.nr = call[c].nr, !.got = n]]
    BY <1>4 DEF ReadLine, Returns
  <2>3. \A d \in Callers : call'[d].id \in {0, call[d].id} /\ call'[d].nr = call[d].nr
    <3>1. CASE UNCHANGED call
      BY <3>1
    <3>2. CASE \E n : call' = [call EXCEPT ![c] = [Idle EXCEPT !.nr = call[c].nr, !.got = n]]
      <4> PICK n : call' = [call EXCEPT ![c] = [Idle EXCEPT !.nr = call[c].nr, !.got = n]]
        BY <3>2
      <4>1. call'[c].id = 0 /\ call'[c].nr = call[c].nr
        BY DEF Shapes, Idle
      <4>2. \A d \in Callers \ {c} : call'[d] = call[d]
        BY DEF Shapes
      <4> QED
        BY <4>1, <4>2
    <3> QED
      BY <2>2, <3>1, <3>2
  <2> QED
    BY <2>1, <2>3, <1>0
<1>5. ASSUME NEW c \in Callers, Fails(c), asked' \subseteq asked, UNCHANGED <<nextId, begun>>
      PROVE  Bounds'
  BY <1>5, <1>0 DEF Fails, Idle, Shapes, Call
<1>6. CASE UNCHANGED <<nextId, begun, call, asked>>
  BY <1>6
<1> QED
  BY <1>1, <1>2, <1>3, <1>4, <1>5, <1>6
  DEF Next, ReadTorn, TimeoutLocking, TimeoutWriting, TimeoutReading, Broken, Close, vars

\* The state keeps its types (all of connection.rs).
LEMMA TypeStep == TypeOK /\ [Next]_vars => TypeOK'
<1>1. TypeOK <=> Shapes /\ Bounds
  BY DEF TypeOK, Shapes, Bounds
<1>2. TypeOK' <=> Shapes' /\ Bounds'
  BY DEF TypeOK, Shapes, Bounds
<1> QED
  BY <1>1, <1>2, ShapesStep, BoundsStep

\* Numbers stay in step, and an answer that is returned is the call's own.
LEMMA NumbersStep ==
    TypeOK /\ Numbered /\ AnswerIsMine /\ [Next]_vars => (Numbered /\ AnswerIsMine)'
<1> SUFFICES ASSUME TypeOK, Numbered, AnswerIsMine, [Next]_vars
             PROVE (Numbered /\ AnswerIsMine)'
  OBVIOUS
<1> USE DEF TypeOK, Call, Request, Idle, At, Numbered, AnswerIsMine
<1>1. ASSUME NEW c \in Callers, Begin(c) PROVE (Numbered /\ AnswerIsMine)'
  BY <1>1 DEF Begin, Counted
<1>2. ASSUME NEW c \in Callers, Lock(c) PROVE (Numbered /\ AnswerIsMine)'
  BY <1>2 DEF Lock
<1>3. ASSUME NEW c \in Callers, Write(c) PROVE (Numbered /\ AnswerIsMine)'
  BY <1>3 DEF Write
<1>4. ASSUME NEW c \in Callers, ReadLine(c) PROVE (Numbered /\ AnswerIsMine)'
  <2> PICK r \in asked : /\ asked' = asked \ {r}
                         /\ IF r.id = call[c].id THEN Returns(c, r)
                            ELSE UNCHANGED <<lock, call, failed>>
    BY <1>4 DEF ReadLine
  <2>1. CASE r.id = call[c].id
    <3>1. r.nr = call[c].nr
      BY <1>4, <2>1 DEF ReadLine
    <3>2. \A d \in Callers : call'[d] = IF d = c THEN [Idle EXCEPT !.nr = call[c].nr, !.got = r.nr]
                                               ELSE call[d]
      BY <2>1 DEF Returns
    <3>3. call[c].nr \in Nat
      OBVIOUS
    <3>4. UNCHANGED <<nextId, begun>> /\ asked' \subseteq asked
      BY <1>4 DEF ReadLine
    <3>5. Numbered'
      <4>1. \A d \in Callers : \/ call'[d] = call[d]
                               \/ /\ call'[d].pc = "idle"
                                  /\ call'[d].lost = FALSE
        BY <3>2
      <4> QED
        BY <3>4, <4>1 DEF Numbered, At
    <3>6. AnswerIsMine'
      BY <3>1, <3>2, <3>3
    <3> QED
      BY <3>5, <3>6
  <2>2. CASE r.id # call[c].id
    BY <1>4, <2>2 DEF ReadLine
  <2> QED
    BY <2>1, <2>2
<1>5. ASSUME NEW c \in Callers, ReadTorn(c) PROVE (Numbered /\ AnswerIsMine)'
  BY <1>5 DEF ReadTorn, Fails
<1>6. ASSUME NEW c \in Callers, TimeoutLocking(c) PROVE (Numbered /\ AnswerIsMine)'
  BY <1>6 DEF TimeoutLocking, Fails
<1>7. ASSUME NEW c \in Callers, TimeoutWriting(c) PROVE (Numbered /\ AnswerIsMine)'
  BY <1>7 DEF TimeoutWriting, Fails
<1>8. ASSUME NEW c \in Callers, TimeoutReading(c) PROVE (Numbered /\ AnswerIsMine)'
  BY <1>8 DEF TimeoutReading, Fails
<1>9. ASSUME NEW c \in Callers, Broken(c) PROVE (Numbered /\ AnswerIsMine)'
  BY <1>9 DEF Broken, Fails
<1>10. CASE Close
  BY <1>10 DEF Close
<1>11. CASE UNCHANGED vars
  BY <1>11 DEF vars
<1> QED
  BY <1>1, <1>2, <1>3, <1>4, <1>5, <1>6, <1>7, <1>8, <1>9, <1>10, <1>11 DEF Next

\* The lock stays with the one call that writes or reads.
LEMMA LockStep == TypeOK /\ LockIsHeld /\ [Next]_vars => LockIsHeld'
<1> SUFFICES ASSUME TypeOK, LockIsHeld, [Next]_vars PROVE LockIsHeld'
  OBVIOUS
<1> USE DEF TypeOK, Call, Idle, At, LockIsHeld
<1>1. ASSUME NEW c \in Callers, Begin(c) PROVE LockIsHeld'
  BY <1>1 DEF Begin
<1>2. ASSUME NEW c \in Callers, Lock(c) PROVE LockIsHeld'
  BY <1>2 DEF Lock
<1>3. ASSUME NEW c \in Callers, Write(c) PROVE LockIsHeld'
  BY <1>3 DEF Write
<1>4. ASSUME NEW c \in Callers, ReadLine(c) PROVE LockIsHeld'
  <2> PICK r \in asked : IF r.id = call[c].id THEN Returns(c, r)
                         ELSE UNCHANGED <<lock, call, failed>>
    BY <1>4 DEF ReadLine
  <2>1. CASE Returns(c, r)
    <3>1. lock = {c}
      BY <1>4 DEF ReadLine
    <3>2. \A d \in Callers : call'[d].pc = IF d = c THEN "idle" ELSE call[d].pc
      BY <2>1 DEF Returns
    <3> QED
      BY <2>1, <3>1, <3>2 DEF Returns
  <2>2. CASE UNCHANGED <<lock, call>>
    BY <2>2
  <2> QED
    BY <2>1, <2>2
<1>5. ASSUME NEW c \in Callers, Fails(c) PROVE LockIsHeld'
  BY <1>5 DEF Fails
<1>6. CASE UNCHANGED <<lock, call>>
  BY <1>6
<1> QED
  BY <1>1, <1>2, <1>3, <1>4, <1>5, <1>6
  DEF Next, ReadTorn, TimeoutLocking, TimeoutWriting, TimeoutReading, Broken, Close, vars

-----------------------------------------------------------------------------
(* The harm.                                                                 *)

\* A lost call holds the lock, so that it is the only one (connection.rs:198).
LEMMA OneIsLost ==
    ASSUME TypeOK, Numbered, LockIsHeld, NEW c \in Callers, NEW d \in Callers,
           Active(c), call[d].lost
    PROVE  c = d
  BY DEF Numbered, LockIsHeld, Active, TypeOK, Call, At

\* A call that fails without having been slow was lost, or read a torn line.
LEMMA PaidStep ==
    TypeOK /\ Numbered /\ LockIsHeld /\ Paid /\ [Next]_vars => Paid'
<1> SUFFICES ASSUME TypeOK, Numbered, LockIsHeld, Paid, [Next]_vars, open' PROVE Paid'
  BY DEF Paid
<1>0. open /\ failed \in Nat /\ slow \in Nat /\ junk \in BOOLEAN /\ torn \in BOOLEAN
  <2>1. open
    <3>1. \A c \in Callers : Begin(c) \/ Lock(c) \/ Write(c) \/ ReadLine(c) => UNCHANGED open
      BY DEF Begin, Lock, Write, ReadLine
    <3>2. \A c \in Callers : ReadTorn(c) \/ TimeoutLocking(c) \/ TimeoutWriting(c)
                              \/ TimeoutReading(c) \/ Broken(c) => UNCHANGED open
      BY DEF ReadTorn, TimeoutLocking, TimeoutWriting, TimeoutReading, Broken
    <3>3. Close => ~open'
      BY DEF Close
    <3> QED
      BY <3>1, <3>2, <3>3 DEF Next, vars
  <2> QED
    BY <2>1 DEF TypeOK
<1>1. failed + Debt <= 3 * slow
  BY <1>0 DEF Paid
<1>2. SUFFICES failed' + Debt' <= 3 * slow'
  BY DEF Paid
<1>3. ASSUME NEW c \in Callers, Fails(c)
      PROVE  /\ failed' = failed + 1
             /\ Active(c) => ~LostCall'
             /\ LostCall' => LostCall
  BY <1>3, OneIsLost DEF Fails, LostCall, TypeOK, Call, Idle
<1>4. ASSUME NEW c \in Callers, Begin(c) \/ Lock(c) \/ ReadLine(c), UNCHANGED failed
      PROVE  failed' + Debt' <= 3 * slow'
  <2>1. LostCall' => LostCall
    <3>1. CASE Begin(c)
      BY <3>1 DEF Begin, LostCall, TypeOK, Call, Idle
    <3>2. CASE Lock(c)
      BY <3>2 DEF Lock, LostCall, TypeOK, Call
    <3>3. CASE ReadLine(c)
      BY <3>3 DEF ReadLine, Returns, LostCall, TypeOK, Call, Idle
    <3> QED
      BY <1>4, <3>1, <3>2, <3>3
  <2>2. UNCHANGED <<junk, torn, slow>>
    BY <1>4 DEF Begin, Lock, ReadLine
  <2> QED
    BY <1>0, <1>1, <1>4, <2>1, <2>2 DEF Debt
<1>5. ASSUME NEW c \in Callers, Write(c) PROVE failed' + Debt' <= 3 * slow'
  <2>1. ~LostCall
    BY <1>5, OneIsLost DEF Write, LostCall, Active, At, Numbered, TypeOK, Call
  <2>2. LostCall' => junk
    BY <1>5, <2>1 DEF Write, LostCall, TypeOK, Call
  <2>3. ~junk' /\ UNCHANGED <<torn, slow, failed>>
    BY <1>5 DEF Write
  <2> QED
    BY <1>0, <1>1, <2>1, <2>2, <2>3 DEF Debt
<1>6. ASSUME NEW c \in Callers, ReadTorn(c) PROVE failed' + Debt' <= 3 * slow'
  <2>1. torn /\ ~torn' /\ UNCHANGED <<junk, slow>>
    BY <1>6 DEF ReadTorn
  <2>2. failed' = failed + 1 /\ (LostCall' => LostCall)
    BY <1>6, <1>3 DEF ReadTorn
  <2> QED
    BY <1>0, <1>1, <2>1, <2>2 DEF Debt
<1>7. ASSUME NEW c \in Callers, TimeoutLocking(c) PROVE failed' + Debt' <= 3 * slow'
  <2>1. UNCHANGED <<junk, torn>> /\ slow' = slow + 1
    BY <1>7 DEF TimeoutLocking, CountSlow, At
  <2>2. failed' = failed + 1 /\ (LostCall' => LostCall)
    BY <1>7, <1>3 DEF TimeoutLocking
  <2> QED
    BY <1>0, <1>1, <2>1, <2>2 DEF Debt
<1>8. ASSUME NEW c \in Callers, TimeoutWriting(c) PROVE failed' + Debt' <= 3 * slow'
  <2>1. UNCHANGED torn /\ slow' = slow + 1
    BY <1>8 DEF TimeoutWriting, CountSlow, At
  <2>2. failed' = failed + 1 /\ ~LostCall'
    BY <1>8, <1>3 DEF TimeoutWriting, Active
  <2> QED
    BY <1>0, <1>1, <2>1, <2>2 DEF Debt
<1>9. ASSUME NEW c \in Callers, TimeoutReading(c) PROVE failed' + Debt' <= 3 * slow'
  <2>1. UNCHANGED junk /\ At(c, "reading")
    BY <1>9 DEF TimeoutReading
  <2>2. failed' = failed + 1 /\ ~LostCall'
    BY <1>9, <1>3, <2>1 DEF TimeoutReading, Active
  <2>3. CASE call[c].lost
    <3>1. LostCall /\ slow' = slow
      BY <1>9, <2>1, <2>3 DEF TimeoutReading, CountSlow, LostCall
    <3> QED
      BY <1>0, <1>1, <2>1, <2>2, <3>1 DEF Debt
  <2>4. CASE ~call[c].lost
    <3>1. slow' = slow + 1
      BY <1>9, <2>4 DEF TimeoutReading, CountSlow
    <3> QED
      BY <1>0, <1>1, <2>1, <2>2, <3>1 DEF Debt
  <2> QED
    BY <2>3, <2>4
<1>10. CASE UNCHANGED vars
  <2>1. UNCHANGED <<junk, torn, slow, failed, call>>
    BY <1>10 DEF vars
  <2> QED
    BY <1>1, <2>1 DEF Debt, LostCall
<1> QED
  <2>1. \A c \in Callers : ~Broken(c) /\ ~Close
    BY <1>0 DEF Broken, Close
  <2>2. ASSUME NEW c \in Callers, Begin(c) \/ Lock(c) PROVE failed' = failed
    BY <2>2 DEF Begin, Lock
  <2>3. ASSUME NEW c \in Callers, ReadLine(c) PROVE failed' = failed
    BY <2>3 DEF ReadLine, Returns
  <2> QED
    BY <1>4, <1>5, <1>6, <1>7, <1>8, <1>9, <1>10, <2>1, <2>2, <2>3, <1>0 DEF Next, Close

-----------------------------------------------------------------------------
\* All parts of the invariant hold at the start and are kept.
THEOREM Invariance == Spec => []IInv
<1>1. Init => IInv
  <2> SUFFICES ASSUME Init PROVE IInv
    OBVIOUS
  <2> USE DEF Init
  <2>1. Idle \in Call
    BY DEF Idle, Call
  <2>2. TypeOK
    <3>1. call \in [Callers -> Call] /\ asked \subseteq Request /\ lock \subseteq Callers
      BY <2>1
    <3>2. \A c \in Callers : call[c].id = 0 /\ call[c].nr = 0
      BY DEF Idle
    <3>3. Bounds
      BY <3>1, <3>2 DEF Bounds
    <3>4. nextId \in Nat /\ begun \in Nat /\ slow \in Nat /\ failed \in Nat
      OBVIOUS
    <3>5. junk \in BOOLEAN /\ torn \in BOOLEAN /\ open \in BOOLEAN
      OBVIOUS
    <3> QED
      BY <3>1, <3>3, <3>4, <3>5 DEF TypeOK, Bounds
  <2>3. Numbered /\ AnswerIsMine /\ LockIsHeld
    BY DEF Numbered, AnswerIsMine, LockIsHeld, Idle, At
  <2>4. ~LostCall
    BY DEF LostCall, Idle
  <2>5. Debt = 0
    BY <2>4 DEF Debt
  <2>6. Paid
    BY <2>5 DEF Paid
  <2> QED
    BY <2>2, <2>3, <2>6 DEF IInv
<1>2. IInv /\ [Next]_vars => IInv'
  BY TypeStep, NumbersStep, LockStep, PaidStep DEF IInv
<1> QED
  BY <1>1, <1>2, PTL DEF Spec

\* The types of the connection's state.
THEOREM TypeCorrect == Spec => []TypeOK
  BY Invariance, PTL DEF IInv

\* A call that returns an answer returns the one to its own request (connection.rs:217).
THEOREM OwnAnswers == Spec => []AnswerIsMine
  BY Invariance, PTL DEF IInv

\* The lock is with the one call that writes or reads, and comes back from calls that are
\* dropped (connection.rs:198).
THEOREM LockSafe == Spec => []LockIsHeld
  BY Invariance, PTL DEF IInv

\* A call that runs out of time spoils at most two more (connection.rs:177).
THEOREM Harm == Spec => []HarmIsBounded
<1>1. IInv => HarmIsBounded
  BY DEF IInv, Paid, Debt, HarmIsBounded, TypeOK
<1> QED
  BY <1>1, Invariance, PTL
=============================================================================
