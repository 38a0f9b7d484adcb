-------------------------- MODULE TimedUploadProofs --------------------------
(***************************************************************************)
(* upload_video implements the safety part of UploadCall, for any zones,   *)
(* windows, chunk and film sizes, failures and numbers of calls, and the   *)
(* time compute_scheduled_at chooses is the first peak time.               *)
(***************************************************************************)
EXTENDS TimedUpload, SequenceTheorems, TLAPS

Units == {1, 2}
Places == {"idle", "token", "open", "read", "send", "incomplete", "created"}

TypeInv ==
  /\ file \in Seq(Units) /\ film \in Seq(Units)
  /\ call \in [at : Places, total : Nat, offset : Nat, chunk : Seq(Units)]
  /\ session \in [total : Nat, bytes : Seq(Units)]
  /\ writing \in BOOLEAN /\ raced \in BOOLEAN

\* The plan and the time are there until the first call begins.
PlanInv ==
  /\ due # Never => plan # NoPlan
  /\ plan # NoPlan => answer = "none" /\ call.at = "idle"

Undisturbed == call.at # "idle" /\ ~raced
PrefixOfFilm(s) == Len(s) <= Len(film) /\ s = SubSeq(film, 1, Len(s))

\* While nobody writes the file, the file is the film, what YouTube has stored is a
\* prefix of it, and the chunk under way is what follows the offset.
FilmInv ==
  Undisturbed =>
    /\ file = film /\ Total = Len(film)
    /\ call.at \in {"read", "send", "incomplete", "created"} =>
         session.total = Len(film) /\ PrefixOfFilm(session.bytes)
    /\ call.at = "send" =>
         LastByte <= Len(film) /\ call.chunk = SubSeq(film, call.offset + 1, LastByte)

Inv == TypeInv /\ PlanInv /\ FilmInv

-----------------------------------------------------------------------------
\* A chunk, and what a session has stored, may be empty.
LEMMA EmptyType == << >> \in Seq(Units)
OBVIOUS

\* The record of a call that is not running is well-typed.
LEMMA IdleType ==
  Idle \in [at : Places, total : Nat, offset : Nat, chunk : Seq(Units)] /\ Idle.at = "idle"
BY EmptyType DEF Idle, Places

\* A call that raises is over and has changed nothing on disk.
LEMMA RaisesType ==
  ASSUME TypeInv, Raises
  PROVE  /\ call' \in [at : Places, total : Nat, offset : Nat, chunk : Seq(Units)]
         /\ call'.at = "idle"
         /\ UNCHANGED <<file, film, writing, raced>>
BY IdleType DEF Raises, disk, history

\* The end of the next chunk lies behind the offset and within the file.
LEMMA ChunkEnd ==
  ASSUME NEW o \in Nat, NEW l \in Nat, l > o
  PROVE  LET m == Min({o + ChunkSize, l}) IN m \in Nat /\ m > o /\ m <= l
<1>1. ChunkSize \in Nat \ {0} BY TimedUploadAssumption
<1> DEFINE S == {o + ChunkSize, l}
<1>2. \E x \in S : \A y \in S : x <= y BY <1>1
<1>3. Min(S) \in S /\ \A y \in S : Min(S) <= y BY <1>2 DEF Min
<1> QED BY <1>1, <1>3

\* What is read is a piece of the file.
LEMMA ChunkType ==
  ASSUME NEW f \in Seq(Units), NEW o \in Nat, NEW m \in Nat, m > o, m <= Len(f)
  PROVE  SubSeq(f, o + 1, m) \in Seq(Units) /\ Len(SubSeq(f, o + 1, m)) = m - o
BY SubSeqProperties

\* A prefix, followed by the first n of the units after it, is a prefix.
LEMMA StoredPrefix ==
  ASSUME NEW f \in Seq(Units), NEW o \in Nat, NEW m \in Nat, o <= m, m <= Len(f),
         NEW n \in 0..(m - o)
  PROVE  SubSeq(f, 1, o) \o SubSeq(SubSeq(f, o + 1, m), 1, n) = SubSeq(f, 1, o + n)
BY SubSeqOfSubSeq, ConcatAdjacentSubSeq, SubSeqEmpty

-----------------------------------------------------------------------------
\* The initial state is well-typed.
LEMMA TypeInit == Init => TypeInv
<1> SUFFICES ASSUME Init PROVE TypeInv OBVIOUS
<1>1. PICK n \in 1..MaxSize : file = Film(1, n) BY DEF Init
<1>2. n \in Nat BY TimedUploadAssumption
<1>3. file \in Seq(Units) BY <1>1, <1>2 DEF Film, Units
<1>4. session \in [total : Nat, bytes : Seq(Units)] BY EmptyType DEF Init, NoSession
<1>5. film \in Seq(Units) BY EmptyType DEF Init
<1>6. writing \in BOOLEAN /\ raced \in BOOLEAN BY DEF Init
<1>7. call \in [at : Places, total : Nat, offset : Nat, chunk : Seq(Units)]
  BY IdleType DEF Init
<1> QED BY <1>3, <1>4, <1>5, <1>6, <1>7 DEF TypeInv

\* Every step keeps the types.
LEMMA TypeStep == TypeInv /\ [Next]_vars => TypeInv'
<1> SUFFICES ASSUME TypeInv, [Next]_vars PROVE TypeInv' OBVIOUS
<1> DEFINE Call0 == [at : Places, total : Nat, offset : Nat, chunk : Seq(Units)]
<1>r. ASSUME Raises, session' = session PROVE TypeInv'
  BY <1>r, RaisesType DEF TypeInv
<1>1. CASE Insert BY <1>1 DEF Insert, TypeInv, disk, history
<1>2. CASE Begins
  <2>1. Len(file) \in Nat BY DEF TypeInv
  <2>2. call' = [Idle EXCEPT !.at = "token", !.total = Len(file)] BY <1>2 DEF Begins
  <2>3. call' \in Call0 BY <2>1, <2>2, EmptyType DEF Idle, Places
  <2> QED BY <1>2, <2>3 DEF Begins, TypeInv, disk
<1>3. CASE RefusesEmpty BY <1>3, <1>r DEF RefusesEmpty
<1>4. CASE GetsToken
  <2>1. CASE call' = [call EXCEPT !.at = "open"] /\ UNCHANGED <<disk, session, history>>
    BY <2>1 DEF TypeInv, disk, history, Places
  <2> QED BY <1>4, <2>1, <1>r DEF GetsToken
<1>5. CASE OpensSession
  <2>1. CASE /\ call' = [call EXCEPT !.at = "read"]
             /\ session' = [total |-> Total, bytes |-> << >>]
             /\ UNCHANGED <<disk, history>>
    <3>1. session' \in [total : Nat, bytes : Seq(Units)] BY <2>1, EmptyType DEF TypeInv, Total
    <3>2. call' \in Call0 BY <2>1 DEF TypeInv, Places
    <3> QED BY <2>1, <3>1, <3>2 DEF TypeInv, disk, history
  <2> QED BY <1>5, <2>1, <1>r DEF OpensSession
<1>6. CASE Reads
  <2> DEFINE m == Min({call.offset + ChunkSize, Len(file)})
  <2>1. call.offset \in Nat /\ Len(file) \in Nat BY DEF TypeInv
  <2>2. m \in Nat /\ m > call.offset /\ m <= Len(file) BY <1>6, <2>1, ChunkEnd DEF Reads
  <2>3. SubSeq(file, call.offset + 1, m) \in Seq(Units) BY <2>1, <2>2, ChunkType DEF TypeInv
  <2>4. call' \in Call0 BY <1>6, <2>3 DEF Reads, TypeInv, Places
  <2> QED BY <1>6, <2>4 DEF Reads, TypeInv, disk, history
<1>7. CASE ReadsNothing BY <1>7, <1>r DEF ReadsNothing
<1>8. CASE Stores
  <2>1. PICK n \in 0..Len(call.chunk) :
          /\ session' = [session EXCEPT !.bytes = session.bytes \o SubSeq(call.chunk, 1, n)]
          /\ \/ call' = [call EXCEPT !.at = "created"]
             \/ call' = [call EXCEPT !.at = "incomplete"]
    BY <1>8 DEF Stores
  <2>2. call.chunk \in Seq(Units) /\ session.bytes \in Seq(Units) BY DEF TypeInv
  <2>3. SubSeq(call.chunk, 1, n) \in Seq(Units) BY <2>2, SubSeqProperties
  <2> DEFINE bytes == session.bytes \o SubSeq(call.chunk, 1, n)
  <2>b. bytes \in Seq(Units) BY <2>2, <2>3, ConcatProperties
  <2>c. session' = [session EXCEPT !.bytes = bytes] BY <2>1
  <2> HIDE DEF bytes
  <2>4. session' \in [total : Nat, bytes : Seq(Units)] BY <2>b, <2>c DEF TypeInv
  <2>5. call' \in Call0 BY <2>1 DEF TypeInv, Places
  <2> QED BY <1>8, <2>4, <2>5 DEF Stores, TypeInv, disk, history
<1>9. CASE Refuses BY <1>9, <1>r DEF Refuses
<1>10. CASE TimesOut BY <1>10, <1>r DEF TimesOut
<1>11. CASE GoesOn
  <2>1. LastByte \in Nat BY DEF TypeInv, LastByte
  <2> QED BY <1>11, <2>1 DEF GoesOn, TypeInv, Places, disk, history
<1>12. CASE Returns BY <1>12, IdleType DEF Returns, TypeInv, disk, history
<1>13. CASE Crash BY <1>13, IdleType DEF Crash, TypeInv, history
<1>14. CASE RenderTruncates BY <1>14 DEF RenderTruncates, Disturbs, TypeInv
<1>15. CASE RenderAppends BY <1>15 DEF RenderAppends, Disturbs, TypeInv, Units
<1>16. CASE RenderEnds BY <1>16 DEF RenderEnds, TypeInv, history
<1>17. CASE UNCHANGED vars BY <1>17 DEF vars, TypeInv
<1> QED
  BY <1>1, <1>2, <1>3, <1>4, <1>5, <1>6, <1>7, <1>8, <1>9, <1>10, <1>11, <1>12, <1>13,
     <1>14, <1>15, <1>16, <1>17 DEF Next, CallStep, Render

\* Only Insert sets a time and only Begins forgets the plan.
LEMMA PlanStep == PlanInv /\ [Next]_vars => PlanInv'
<1> SUFFICES ASSUME PlanInv, [Next]_vars PROVE PlanInv' OBVIOUS
<1>1. CASE Insert BY <1>1 DEF Insert, PlanInv
<1>2. CASE Begins BY <1>2 DEF Begins, PlanInv
<1>3. CASE UNCHANGED row /\ call.at # "idle" BY <1>3 DEF PlanInv, row
<1>4. CASE UNCHANGED <<row, answer, call>> BY <1>4 DEF PlanInv, row
<1>5. CallStep => UNCHANGED row /\ call.at # "idle"
  BY DEF CallStep, RefusesEmpty, GetsToken, OpensSession, Reads, ReadsNothing, Stores,
         Refuses, TimesOut, GoesOn, Returns, Raises, row
<1>6. Crash => UNCHANGED row /\ call.at # "idle" BY DEF Crash, row
<1>7. Render \/ UNCHANGED vars => UNCHANGED <<row, answer, call>>
  BY DEF Render, RenderTruncates, RenderAppends, RenderEnds, vars, row
<1> QED BY <1>1, <1>2, <1>3, <1>4, <1>5, <1>6, <1>7 DEF Next

-----------------------------------------------------------------------------
\* At first no call runs, so both parts hold.
LEMMA FilmInit == Init => PlanInv /\ FilmInv
BY DEF Init, PlanInv, FilmInv, Undisturbed, Idle

\* What YouTube has after a chunk is still a prefix of an undisturbed film.
LEMMA StoredFilm ==
  ASSUME TypeInv, FilmInv, call.at = "send", ~raced, Fits, NEW n \in 0..Len(call.chunk)
  PROVE  LET bytes == session.bytes \o SubSeq(call.chunk, 1, n) IN
         /\ PrefixOfFilm(bytes)
         /\ session.total = Len(film)
         /\ Len(bytes) = session.total => bytes = film
<1>1. /\ session.total = Len(film) /\ PrefixOfFilm(session.bytes)
      /\ LastByte <= Len(film) /\ call.chunk = SubSeq(film, call.offset + 1, LastByte)
  BY DEF FilmInv, Undisturbed
<1>2. /\ film \in Seq(Units) /\ Len(film) \in Nat /\ Len(call.chunk) \in Nat
      /\ call.offset \in Nat /\ call.offset = Len(session.bytes)
      /\ LastByte = call.offset + Len(call.chunk)
  BY DEF TypeInv, Fits, LastByte
<1> DEFINE o == call.offset
           last == LastByte
           bytes == session.bytes \o SubSeq(call.chunk, 1, n)
<1>3. last \in Nat /\ o <= last /\ n \in 0..(last - o)
  <2> DEFINE k == Len(call.chunk)
  <2>1. k \in Nat /\ o \in Nat /\ last = o + k /\ n \in 0..k BY <1>2
  <2> HIDE DEF k, o, last
  <2> QED BY <2>1
<1>4. SubSeq(film, 1, o) \o SubSeq(SubSeq(film, o + 1, last), 1, n) = SubSeq(film, 1, o + n)
  <2>1. o \in Nat /\ last <= Len(film) BY <1>1, <1>2
  <2> HIDE DEF o, last
  <2> QED BY <1>2, <1>3, <2>1, StoredPrefix
<1>5. bytes = SubSeq(film, 1, o + n) BY <1>1, <1>2, <1>4 DEF PrefixOfFilm
<1>6. o + n \in Nat /\ o + n <= Len(film)
  <2>1. o \in Nat /\ Len(film) \in Nat /\ last <= Len(film) BY <1>1, <1>2
  <2> HIDE DEF o, last
  <2> QED BY <1>3, <2>1
<1>7. Len(SubSeq(film, 1, o + n)) = o + n BY <1>2, <1>6, SubSeqProperties
<1>8. SubSeq(film, 1, Len(film)) = film BY <1>2, SubSeqFull
<1> HIDE DEF bytes
<1>9. PrefixOfFilm(bytes) /\ (Len(bytes) = Len(film) => bytes = film)
  BY <1>5, <1>6, <1>7, <1>8 DEF PrefixOfFilm
<1> QED BY <1>1, <1>9 DEF bytes

\* Every step keeps what an undisturbed call has sent a prefix of its film.
LEMMA FilmStep == TypeInv /\ FilmInv /\ [Next]_vars => FilmInv'
<1> SUFFICES ASSUME TypeInv, FilmInv, [Next]_vars, Undisturbed' PROVE FilmInv'
  BY DEF FilmInv
<1>f. Len(film) \in Nat /\ Len(session.bytes) \in Nat /\ call.offset \in Nat
  BY DEF TypeInv
<1>r. ~Raises BY IdleType DEF Raises, Undisturbed
<1>1. CASE Insert \/ RenderEnds \/ UNCHANGED vars
  BY <1>1 DEF Insert, RenderEnds, vars, disk, history, FilmInv, Undisturbed, PrefixOfFilm,
              Total, LastByte
<1>2. CASE Begins
  <2>1. call'.at = "token" /\ call'.total = Len(file) BY <1>2 DEF Begins, Idle
  <2>2. file' = file /\ film' = file BY <1>2 DEF Begins, disk
  <2> QED BY <2>1, <2>2 DEF FilmInv, Total
<1>3. CASE GetsToken
  <2>1. call' = [call EXCEPT !.at = "open"] /\ UNCHANGED <<disk, history>>
    BY <1>3, <1>r DEF GetsToken
  <2>2. call'.at = "open" /\ call'.total = call.total BY <2>1 DEF TypeInv
  <2> QED BY <1>3, <2>1, <2>2 DEF GetsToken, FilmInv, Undisturbed, Total, disk, history
<1>4. CASE OpensSession
  <2>1. /\ call' = [call EXCEPT !.at = "read"] /\ UNCHANGED <<disk, history>>
        /\ session' = [total |-> Total, bytes |-> << >>]
    BY <1>4, <1>r DEF OpensSession
  <2>2. call'.at = "read" /\ call'.total = call.total BY <2>1 DEF TypeInv
  <2>3. film' = film /\ file = film /\ Total = Len(film)
    BY <1>4, <2>1 DEF OpensSession, FilmInv, Undisturbed, history
  <2>4. SubSeq(film, 1, 0) = << >> BY SubSeqEmpty
  <2>5. PrefixOfFilm(session.bytes)' /\ session'.total = Len(film')
    BY <1>f, <2>1, <2>3, <2>4 DEF PrefixOfFilm
  <2> QED BY <2>1, <2>2, <2>3, <2>5 DEF FilmInv, Total, disk
<1>5. CASE Reads
  <2> DEFINE m == Min({call.offset + ChunkSize, Len(file)})
  <2>1. /\ call.at = "read" /\ UNCHANGED <<disk, session, history>>
        /\ call' = [call EXCEPT !.at = "send", !.chunk = SubSeq(file, call.offset + 1, m)]
    BY <1>5 DEF Reads
  <2>2. call'.at = "send" /\ UNCHANGED <<call.total, call.offset>>
        /\ call'.chunk = SubSeq(file, call.offset + 1, m)
    BY <2>1 DEF TypeInv
  <2>3. /\ file = film /\ Total = Len(film)
        /\ session.total = Len(film) /\ PrefixOfFilm(session.bytes)
    BY <2>1 DEF FilmInv, Undisturbed, history
  <2>4. m \in Nat /\ m > call.offset /\ m <= Len(film)
    BY <1>5, <1>f, <2>3, ChunkEnd DEF Reads
  <2> HIDE DEF m
  <2>5. Len(call'.chunk) = m - call.offset BY <1>f, <2>2, <2>3, <2>4, ChunkType DEF TypeInv
  <2>6. LastByte' = m BY <1>f, <2>2, <2>4, <2>5 DEF LastByte
  <2> QED BY <2>1, <2>2, <2>3, <2>4, <2>6 DEF FilmInv, PrefixOfFilm, Total, disk, history
<1>6. CASE Stores
  <2>1. call.at = "send" /\ Fits /\ UNCHANGED <<disk, history>> BY <1>6 DEF Stores
  <2>2. PICK n \in 0..Len(call.chunk) :
          /\ session' = [session EXCEPT !.bytes = session.bytes \o SubSeq(call.chunk, 1, n)]
          /\ \/ call' = [call EXCEPT !.at = "created"]
             \/ call' = [call EXCEPT !.at = "incomplete"]
    BY <1>6 DEF Stores
  <2>3. ~raced /\ Undisturbed BY <2>1 DEF Undisturbed, history
  <2> DEFINE bytes == session.bytes \o SubSeq(call.chunk, 1, n)
  <2>4. PrefixOfFilm(bytes) /\ session.total = Len(film) BY <2>1, <2>3, StoredFilm
  <2>5. session' = [session EXCEPT !.bytes = bytes] BY <2>2
  <2> HIDE DEF bytes
  <2>6. session'.total = Len(film) /\ session'.bytes = bytes BY <2>4, <2>5 DEF TypeInv
  <2>7. call'.at \in {"created", "incomplete"} /\ call'.total = call.total
    BY <2>2 DEF TypeInv
  <2> QED BY <2>1, <2>3, <2>4, <2>6, <2>7 DEF FilmInv, PrefixOfFilm, Total, disk, history
<1>7. CASE GoesOn
  <2>1. /\ call.at = "incomplete" /\ UNCHANGED <<disk, session, history>>
        /\ call' = [call EXCEPT !.at = "read", !.offset = LastByte]
    BY <1>7 DEF GoesOn
  <2>2. call'.at = "read" /\ call'.total = call.total BY <2>1 DEF TypeInv
  <2>3. /\ file = film /\ Total = Len(film)
        /\ session.total = Len(film) /\ PrefixOfFilm(session.bytes)
    BY <2>1 DEF FilmInv, Undisturbed, history
  <2> QED BY <2>1, <2>2, <2>3 DEF FilmInv, PrefixOfFilm, Total, disk, history
<1>8. CASE RenderTruncates \/ RenderAppends
  BY <1>8 DEF RenderTruncates, RenderAppends, Disturbs, Undisturbed
<1>9. CASE Returns \/ Crash BY <1>9, IdleType DEF Returns, Crash, Undisturbed
<1>10. CASE RefusesEmpty \/ ReadsNothing \/ Refuses \/ TimesOut
  BY <1>10, <1>r DEF RefusesEmpty, ReadsNothing, Refuses, TimesOut
<1> QED
  BY <1>1, <1>2, <1>3, <1>4, <1>5, <1>6, <1>7, <1>8, <1>9, <1>10 DEF Next, CallStep, Render

-----------------------------------------------------------------------------
(* The refinement.                                                         *)

\* The call was running before and after, and neither was its video made.
LEMMA Silent ==
  ASSUME call.at \notin {"idle", "created"}, call'.at \notin {"idle", "created"},
         UNCHANGED <<raced, tube>>
  PROVE  UNCHANGED Call!vars
BY DEF Call!vars

\* A step that ends a running call with an exception is Raise of UploadCall.
LEMMA RaisesRaise ==
  ASSUME call.at # "idle", Raises
  PROVE  Call!Raise
BY IdleType DEF Raises, Call!Raise, history

\* Before the first call UploadCall is in its initial state.
LEMMA RefinesInit == Init => Call!Init
BY DEF Init, Call!Init, Idle

\* Every step is one of UploadCall or changes nothing it knows of.
LEMMA RefinesStep == Inv /\ [Next]_vars => [Call!Next]_Call!vars
<1> SUFFICES ASSUME Inv, [Next]_vars PROVE [Call!Next]_Call!vars OBVIOUS
<1> USE DEF Inv
<1>1. CASE Insert \/ RenderEnds \/ UNCHANGED vars
  BY <1>1 DEF Insert, RenderEnds, vars, history, Call!vars
<1>2. CASE Begins
  <2>1. call'.at = "token" /\ call.at = "idle" /\ raced' \in BOOLEAN /\ tube' = tube
    BY <1>2 DEF Begins, Idle, TypeInv
  <2>2. answer \in {"none", "raised"} BY <1>2 DEF Begins, PlanInv
  <2>3. Call!Begin BY <2>1, <2>2 DEF Call!Begin
  <2> QED BY <2>3 DEF Call!Next
<1>3. CASE GetsToken
  <2>1. CASE call' = [call EXCEPT !.at = "open"] /\ UNCHANGED <<tube, history>>
    BY <1>3, <2>1, Silent DEF GetsToken, TypeInv, history
  <2>2. CASE Raises BY <1>3, <2>2, RaisesRaise DEF GetsToken, Call!Next
  <2> QED BY <1>3, <2>1, <2>2 DEF GetsToken
<1>4. CASE OpensSession
  <2>1. CASE call' = [call EXCEPT !.at = "read"] /\ UNCHANGED <<tube, history>>
    BY <1>4, <2>1, Silent DEF OpensSession, TypeInv, history
  <2>2. CASE Raises BY <1>4, <2>2, RaisesRaise DEF OpensSession, Call!Next
  <2> QED BY <1>4, <2>1, <2>2 DEF OpensSession
<1>5. CASE Reads BY <1>5, Silent DEF Reads, TypeInv, history
<1>6. CASE Stores
  <2>1. call.at = "send" /\ Fits /\ UNCHANGED history BY <1>6 DEF Stores
  <2>2. PICK n \in 0..Len(call.chunk) :
          LET bytes == session.bytes \o SubSeq(call.chunk, 1, n) IN
          IF Len(bytes) = session.total
          THEN tube' = Append(tube, bytes = film) /\ call' = [call EXCEPT !.at = "created"]
          ELSE UNCHANGED tube /\ call' = [call EXCEPT !.at = "incomplete"]
    BY <1>6 DEF Stores
  <2> DEFINE bytes == session.bytes \o SubSeq(call.chunk, 1, n)
  <2>3. ~raced /\ Len(bytes) = session.total => bytes = film BY <2>1, StoredFilm
  <2>4. CASE Len(bytes) = session.total
    <3>1. tube' = Append(tube, bytes = film) /\ call' = [call EXCEPT !.at = "created"]
      BY <2>2, <2>4
    <3>2. call'.at = "created" BY <3>1 DEF TypeInv
    <3>3. \E whole \in BOOLEAN : (whole \/ raced) /\ tube' = Append(tube, whole)
      <4>1. (bytes = film) \in BOOLEAN OBVIOUS
      <4>2. (bytes = film) \/ raced BY <2>3, <2>4 DEF TypeInv
      <4> QED BY <3>1, <4>1, <4>2
    <3>4. Call!Create BY <2>1, <3>2, <3>3 DEF Call!Create, history
    <3> QED BY <3>4 DEF Call!Next
  <2>5. CASE Len(bytes) # session.total
    <3>1. UNCHANGED tube /\ call' = [call EXCEPT !.at = "incomplete"] BY <2>2, <2>5
    <3> QED BY <2>1, <3>1, Silent DEF TypeInv, history
  <2> QED BY <2>4, <2>5
<1>7. CASE GoesOn BY <1>7, Silent DEF GoesOn, TypeInv, history
<1>8. CASE Returns
  <2>1. Call!Return BY <1>8, IdleType DEF Returns, Call!Return, history
  <2> QED BY <2>1 DEF Call!Next
<1>9. CASE Crash
  <2>1. Call!Raise BY <1>9, IdleType DEF Crash, Call!Raise, history
  <2> QED BY <2>1 DEF Call!Next
<1>10. CASE RefusesEmpty \/ ReadsNothing \/ Refuses \/ TimesOut
  <2>1. Raises /\ call.at # "idle"
    BY <1>10 DEF RefusesEmpty, ReadsNothing, Refuses, TimesOut
  <2> QED BY <2>1, RaisesRaise DEF Call!Next
<1>11. CASE RenderTruncates \/ RenderAppends
  <2>1. UNCHANGED <<call, answer, tube>> /\ Disturbs
    BY <1>11 DEF RenderTruncates, RenderAppends
  <2>2. CASE call.at = "idle" BY <2>1, <2>2 DEF Disturbs, Call!vars, TypeInv
  <2>3. CASE call.at # "idle"
    <3>1. Call!Disturb BY <2>1, <2>3 DEF Disturbs, Call!Disturb
    <3> QED BY <3>1 DEF Call!Next
  <2> QED BY <2>2, <2>3
<1> QED
  BY <1>1, <1>2, <1>3, <1>4, <1>5, <1>6, <1>7, <1>8, <1>9, <1>10, <1>11
  DEF Next, CallStep, Render

(***************************************************************************)
(* A call of upload_video makes at most one video, the whole film unless   *)
(* somebody wrote the file meanwhile, and returns only with it: the part   *)
(* of ImplementsUploadCall without its fairness.                           *)
(***************************************************************************)
THEOREM Refinement == Spec => Call!Init /\ [][Call!Next]_Call!vars
<1>1. Init => Inv /\ Call!Init BY TypeInit, FilmInit, RefinesInit DEF Inv
<1>2. Inv /\ [Next]_vars => Inv' BY TypeStep, PlanStep, FilmStep DEF Inv
<1>3. Inv /\ [Next]_vars => [Call!Next]_Call!vars BY RefinesStep
<1> QED BY <1>1, <1>2, <1>3, PTL DEF Spec

-----------------------------------------------------------------------------
(* The time of an upload.  Local times are half hours; a day begins at a   *)
(* multiple of 48 and its window at a whole hour of it.                    *)

Peak(windows, wall) ==
  From(windows, Midnight(wall)) <= wall /\ wall < Until(windows, Midnight(wall))

Good(windows) == WellFormed(windows.weekday) /\ WellFormed(windows.weekend)

Changes(zone) ==
  /\ {zone.before, zone.after, zone.change} \subseteq Int
  /\ zone.before - zone.after \in -Hour..Hour
  /\ zone.before - zone.after \in {-Hour, Hour} => (zone.change + zone.before) % Hour = 0

\* Malformed windows give way to the defaults, which are well-formed.
LEMMA WindowsGood ==
  ASSUME NEW config, NEW type \in Types
  PROVE  Good(Windows(config, type))
<1>1. CASE WellFormed(config.weekday) /\ WellFormed(config.weekend)
  BY <1>1 DEF Windows, Good
<1>2. CASE ~(WellFormed(config.weekday) /\ WellFormed(config.weekend))
  <2>1. Windows(config, type) = DEFAULT_PEAK_WINDOWS[type] BY <1>2 DEF Windows
  <2>2. Good(DEFAULT_PEAK_WINDOWS["short"]) /\ Good(DEFAULT_PEAK_WINDOWS["long"])
    BY DEF DEFAULT_PEAK_WINDOWS, Good, WellFormed
  <2> QED BY <2>1, <2>2 DEF Types
<1> QED BY <1>1, <1>2

\* A day's window begins and ends on whole hours of that day.
LEMMA WindowHours ==
  ASSUME NEW windows, Good(windows), NEW midnight \in Int
  PROVE  \E f \in 0..23, u \in 1..24 :
           f < u /\ From(windows, midnight) = midnight + 2 * f
                 /\ Until(windows, midnight) = midnight + 2 * u
<1> DEFINE window == IF Weekend(midnight) THEN windows.weekend ELSE windows.weekday
<1>1. window[1] \in 0..23 /\ window[2] \in 0..24 /\ window[1] < window[2]
  BY DEF Good, WellFormed
<1>2. From(windows, midnight) = midnight + 2 * window[1] BY DEF From, Hour
<1>3. Until(windows, midnight) = midnight + 2 * window[2] BY DEF Until, Hour
<1> HIDE DEF window
<1>4. window[2] \in 1..24 BY <1>1
<1> QED BY <1>1, <1>2, <1>3, <1>4

\* The midnight before a local time is a multiple of 48 at most 47 before it.
LEMMA MidnightBefore ==
  ASSUME NEW wall \in Int
  PROVE  /\ Midnight(wall) \in Int /\ Midnight(wall) <= wall /\ wall < Midnight(wall) + 48
         /\ \E q \in Int : Midnight(wall) = 48 * q
<1>1. wall = 48 * (wall \div 48) + (wall % 48) /\ (wall \div 48) \in Int OBVIOUS
<1>2. wall % 48 \in 0..47 OBVIOUS
<1>3. Midnight(wall) = 48 * (wall \div 48) BY <1>1, <1>2 DEF Midnight, Day, Hour
<1> QED BY <1>1, <1>2, <1>3

\* The times of a day have its midnight.
LEMMA MidnightOf ==
  ASSUME NEW q \in Int, NEW wall \in Int, 48 * q <= wall, wall < 48 * q + 48
  PROVE  Midnight(wall) = 48 * q
<1>1. wall % 48 = wall - 48 * q OBVIOUS
<1> QED BY <1>1 DEF Midnight, Day, Hour

\* The two half hours of an hour are both in a window or both outside.
LEMMA SameHour ==
  ASSUME NEW windows, Good(windows), NEW h \in Int, NEW t \in 2 * h .. 2 * h + 1,
         NEW u \in 2 * h .. 2 * h + 1, Peak(windows, t)
  PROVE  Peak(windows, u)
<1>1. PICK q \in Int : Midnight(t) = 48 * q BY MidnightBefore
<1>2. 48 * q <= t /\ t < 48 * q + 48 BY <1>1, MidnightBefore
<1>3. 48 * q <= u /\ u < 48 * q + 48 BY <1>2
<1>4. Midnight(u) = 48 * q BY <1>3, MidnightOf
<1>5. PICK f \in 0..23, v \in 1..24 :
        From(windows, 48 * q) = 48 * q + 2 * f /\ Until(windows, 48 * q) = 48 * q + 2 * v
  BY WindowHours
<1>6. 48 * q + 2 * f <= t /\ t < 48 * q + 2 * v BY <1>1, <1>5 DEF Peak
<1>7. 48 * q + 2 * f <= u /\ u < 48 * q + 2 * v BY <1>6
<1> QED BY <1>4, <1>5, <1>7 DEF Peak

-----------------------------------------------------------------------------
(* The days looked at hold a window that is open or still to come, and the *)
(* first such day is today or tomorrow.                                    *)

Inside(windows, d, wall) == From(windows, d) <= wall /\ wall < Until(windows, d)
Days(windows, wall) ==
  {d \in {Midnight(wall) + Day * k : k \in DaysAhead} :
     Inside(windows, d, wall) \/ From(windows, d) >= wall}

\* Such a day exists, and the earliest of them is at most tomorrow.
LEMMA FirstDay ==
  ASSUME NEW windows, Good(windows), NEW wall \in Int
  PROVE  LET day == Min(Days(windows, wall))
             opens == From(windows, day)
         IN  /\ Days(windows, wall) # {}
             /\ Inside(windows, day, wall) => Peak(windows, wall)
             /\ ~Inside(windows, day, wall) =>
                  /\ \E h \in Int : opens = 2 * h
                  /\ wall < opens /\ opens - wall <= 92
                  /\ Peak(windows, opens) /\ ~Peak(windows, wall)
                  /\ \A u \in wall..(opens - 1) : ~Peak(windows, u)
<1> DEFINE days == Days(windows, wall)
<1>1. PICK q \in Int : Midnight(wall) = 48 * q BY MidnightBefore
<1>2. 48 * q <= wall /\ wall < 48 * q + 48 BY <1>1, MidnightBefore
<1>3. PICK f \in 0..23, u \in 1..24 :
        f < u /\ From(windows, 48 * q) = 48 * q + 2 * f /\ Until(windows, 48 * q) = 48 * q + 2 * u
  BY WindowHours
<1>4. 48 * (q + 1) \in Int OBVIOUS
<1>5. PICK g \in 0..23, v \in 1..24 :
        /\ g < v /\ From(windows, 48 * (q + 1)) = 48 * (q + 1) + 2 * g
        /\ Until(windows, 48 * (q + 1)) = 48 * (q + 1) + 2 * v
  BY <1>4, WindowHours
<1>6. DaysAhead = 0..3
  <2>1. 48 \div 24 = 2 OBVIOUS
  <2> QED BY <2>1 DEF DaysAhead, PEAK_SCHEDULING_HORIZON_HOURS
<1>7. \A d \in days : d \in Int /\ (d = 48 * q \/ d >= 48 * (q + 1))
  <2> SUFFICES ASSUME NEW k \in 0..3
               PROVE  48 * q + 48 * k \in Int /\ (k = 0 \/ 48 * q + 48 * k >= 48 * (q + 1))
    BY <1>1, <1>6 DEF Days, Day, Hour
  <2> QED OBVIOUS
<1>8. 48 * q = Midnight(wall) + Day * 0 /\ 48 * (q + 1) = Midnight(wall) + Day * 1
  BY <1>1 DEF Day, Hour
<1>9. CASE wall < 48 * q + 2 * u
  <2>1. 48 * q \in days
    <3>1. Inside(windows, 48 * q, wall) \/ From(windows, 48 * q) >= wall
      BY <1>3, <1>9 DEF Inside
    <3> QED BY <1>6, <1>8, <3>1 DEF Days
  <2> HIDE DEF days
  <2>2. \A d \in days : 48 * q <= d BY <1>7
  <2>3. Min(days) = 48 * q
    <3>1. Min(days) \in days /\ \A d \in days : Min(days) <= d BY <2>1, <2>2 DEF Min
    <3> QED BY <1>7, <2>1, <2>2, <3>1
  <2>4. CASE 48 * q + 2 * f <= wall
    <3>1. Inside(windows, 48 * q, wall) /\ Peak(windows, wall)
      BY <1>1, <1>3, <1>9, <2>4 DEF Inside, Peak
    <3> QED BY <2>1, <2>3, <3>1 DEF days
  <2>5. CASE wall < 48 * q + 2 * f
    <3>1. \E h \in Int : 48 * q + 2 * f = 2 * h
      <4>1. 48 * q + 2 * f = 2 * (24 * q + f) /\ 24 * q + f \in Int OBVIOUS
      <4> QED BY <4>1
    <3>2. 48 * q + 2 * f - wall <= 92 BY <1>2
    <3>3. Midnight(48 * q + 2 * f) = 48 * q
      <4>1. 48 * q <= 48 * q + 2 * f /\ 48 * q + 2 * f < 48 * q + 48 OBVIOUS
      <4> QED BY <4>1, MidnightOf
    <3>4. Peak(windows, 48 * q + 2 * f) BY <1>3, <3>3 DEF Peak
    <3>5. ASSUME NEW x \in wall..(48 * q + 2 * f - 1) PROVE ~Peak(windows, x)
      <4>1. 48 * q <= x /\ x < 48 * q + 48 /\ x < 48 * q + 2 * f BY <1>2
      <4>2. Midnight(x) = 48 * q BY <4>1, MidnightOf
      <4> QED BY <1>3, <4>1, <4>2 DEF Peak
    <3>6. ~Inside(windows, 48 * q, wall) /\ ~Peak(windows, wall)
      BY <1>1, <1>3, <2>5 DEF Inside, Peak
    <3> QED BY <1>3, <2>1, <2>3, <2>5, <3>1, <3>2, <3>4, <3>5, <3>6 DEF days
  <2> QED BY <2>4, <2>5
<1>10. CASE wall >= 48 * q + 2 * u
  <2>1. 48 * (q + 1) \in days
    <3>1. From(windows, 48 * (q + 1)) >= wall BY <1>2, <1>5
    <3> QED BY <1>6, <1>8, <3>1 DEF Days
  <2>2. 48 * q \notin days
    <3>1. ~(wall < Until(windows, 48 * q)) /\ ~(From(windows, 48 * q) >= wall)
      BY <1>3, <1>10
    <3> QED BY <3>1 DEF Days, Inside
  <2> HIDE DEF days
  <2>3. \A d \in days : 48 * (q + 1) <= d BY <1>7, <2>2
  <2>4. Min(days) = 48 * (q + 1)
    <3>1. Min(days) \in days /\ \A d \in days : Min(days) <= d BY <2>1, <2>3 DEF Min
    <3> QED BY <1>7, <2>1, <2>3, <3>1
  <2> DEFINE opens == 48 * (q + 1) + 2 * g
  <2>5. \E h \in Int : opens = 2 * h
    <3>1. opens = 2 * (24 * q + 24 + g) /\ 24 * q + 24 + g \in Int OBVIOUS
    <3> QED BY <3>1
  <2>6. wall < opens /\ opens - wall <= 92 BY <1>2, <1>10
  <2>7. Midnight(opens) = 48 * (q + 1)
    <3> DEFINE r == q + 1
    <3>1. r \in Int /\ opens \in Int /\ 48 * r <= opens /\ opens < 48 * r + 48 OBVIOUS
    <3> HIDE DEF opens, r
    <3>2. Midnight(opens) = 48 * r BY <3>1, MidnightOf
    <3> QED BY <3>2 DEF r
  <2>8. Peak(windows, opens) BY <1>5, <2>7 DEF Peak
  <2>9. ASSUME NEW x \in wall..(opens - 1) PROVE ~Peak(windows, x)
    <3>1. CASE x < 48 * q + 48
      <4>1. Midnight(x) = 48 * q BY <1>2, <3>1, MidnightOf
      <4> QED BY <1>3, <1>10, <4>1 DEF Peak
    <3>2. CASE x >= 48 * q + 48
      <4> DEFINE r == q + 1
      <4>1. r \in Int /\ 48 * r <= x BY <3>2
      <4>2. x < 48 * r + 2 * g OBVIOUS
      <4>3. x < 48 * r + 48 BY <4>1, <4>2
      <4>4. Midnight(x) = 48 * r
        <5> HIDE DEF r, opens
        <5> QED BY <4>1, <4>3, MidnightOf
      <4> QED BY <1>5, <4>2, <4>4 DEF Peak
    <3> QED BY <3>1, <3>2
  <2>10. ~Inside(windows, 48 * (q + 1), wall)
    <3>1. ~(48 * (q + 1) + 2 * g <= wall) BY <2>6
    <3> QED BY <1>5, <3>1 DEF Inside
  <2>11. ~Peak(windows, wall) BY <1>1, <1>3, <1>10 DEF Peak
  <2> QED BY <1>5, <2>1, <2>4, <2>5, <2>6, <2>8, <2>9, <2>10, <2>11 DEF days
<1> QED BY <1>9, <1>10

-----------------------------------------------------------------------------
(* The clock.  A whole hour of local time after the floor's own lies after *)
(* the floor, also where the clocks change in between.                     *)

\* A whole hour.
LEMMA Even ==
  ASSUME NEW x \in Int, x % 2 = 0
  PROVE  \E k \in Int : x = 2 * k
<1>1. x = 2 * (x \div 2) + (x % 2) /\ (x \div 2) \in Int OBVIOUS
<1> QED BY <1>1

\* Converting a whole hour to UTC: the clock shows that hour then, unless it is
\* skipped, and every clock time in between is earlier and either not before the
\* floor's or in the floor's own hour, which occurs twice.
LEMMA ClockChange ==
  ASSUME NEW zone, Changes(zone), NEW floor \in Int, NEW h \in Int, ToLocal(zone, floor) < 2 * h
  PROVE  LET utc == ToUtc(zone, 2 * h)
             wall == ToLocal(zone, floor)
         IN  /\ utc \in Int /\ utc >= floor /\ utc - floor <= 2 * h - wall + 2
             /\ ToLocal(zone, utc) = 2 * h \/ (zone.before < zone.after /\ utc = zone.change)
             /\ \A t \in floor..(utc - 1) :
                  /\ ToLocal(zone, t) < 2 * h
                  /\ \/ ToLocal(zone, t) >= wall
                     \/ \E e \in Int : ToLocal(zone, t) \in 2 * e .. 2 * e + 1
                                       /\ wall \in 2 * e .. 2 * e + 1
<1> DEFINE b == zone.before
           a == zone.after
           c == zone.change
           utc == ToUtc(zone, 2 * h)
           wall == ToLocal(zone, floor)
           L(t) == ToLocal(zone, t)
<1>1. b \in Int /\ a \in Int /\ c \in Int BY DEF Changes
<1>2. b - a \in -2..2 /\ (b - a \in {-2, 2} => (c + b) % 2 = 0) BY DEF Changes, Hour
<1>3. \A t \in Int : L(t) = IF t < c THEN t + b ELSE t + a BY <1>1 DEF ToLocal
<1>4. CASE b < a
  <2>1. utc = IF 2 * h < c + a THEN 2 * h - b ELSE 2 * h - a
    <3>1. Max({b, a}) = a
      <4>1. a \in {b, a} /\ \A x \in {b, a} : x <= a BY <1>1, <1>4
      <4>2. Max({b, a}) \in {b, a} /\ \A x \in {b, a} : x <= Max({b, a}) BY <4>1 DEF Max
      <4> QED BY <1>1, <1>4, <4>2
    <3> QED BY <3>1 DEF ToUtc
  <2>2. ~(c + b < 2 * h /\ 2 * h < c + a)
    <3>1. SUFFICES ASSUME c + b < 2 * h, 2 * h < c + a PROVE FALSE OBVIOUS
    <3> HIDE DEF b, a, c
    <3>2. b - a = -2 /\ 2 * h = c + b + 1 BY <1>1, <1>2, <1>4, <3>1
    <3>3. (c + b) % 2 = 0 BY <1>2, <3>2
    <3>4. c + b \in Int BY <1>1
    <3>5. \E k \in Int : c + b = 2 * k BY <3>3, <3>4, Even
    <3> QED BY <1>1, <3>2, <3>5
  <2> HIDE DEF b, a, c, utc, wall, L
  <2>3. wall = IF floor < c THEN floor + b ELSE floor + a BY <1>3 DEF wall, L
  <2>4. utc \in Int /\ utc >= floor /\ utc - floor <= 2 * h - wall + 2
    <3>1. wall < 2 * h BY DEF wall
    <3> QED BY <1>1, <1>2, <1>4, <2>1, <2>2, <2>3, <3>1
  <2>5. L(utc) = 2 * h \/ utc = c BY <1>1, <1>3, <1>4, <2>1, <2>2, <2>4
  <2>6. ASSUME NEW t \in floor..(utc - 1) PROVE L(t) < 2 * h /\ L(t) >= wall
    <3>1. t \in Int /\ floor <= t /\ t < utc BY <2>4
    <3> QED BY <1>1, <1>3, <1>4, <2>1, <2>2, <2>3, <3>1
  <2> QED BY <1>4, <2>4, <2>5, <2>6 DEF utc, wall, L, b, a, c
<1>5. CASE b >= a
  <2>1. utc = IF 2 * h < c + b THEN 2 * h - b ELSE 2 * h - a
    <3>1. Max({b, a}) = b
      <4>1. b \in {b, a} /\ \A x \in {b, a} : x <= b BY <1>1, <1>5
      <4>2. Max({b, a}) \in {b, a} /\ \A x \in {b, a} : x <= Max({b, a}) BY <4>1 DEF Max
      <4> QED BY <1>1, <1>5, <4>2
    <3> QED BY <3>1 DEF ToUtc
  <2> HIDE DEF b, a, c, utc, wall, L
  <2>2. wall = IF floor < c THEN floor + b ELSE floor + a BY <1>3 DEF wall, L
  <2>3. wall < 2 * h BY DEF wall
  <2>4. b - a = 2 => \E k \in Int : c + b = 2 * k
    <3> SUFFICES ASSUME b - a = 2 PROVE \E k \in Int : c + b = 2 * k OBVIOUS
    <3>1. (c + b) % 2 = 0 BY <1>2
    <3>2. c + b \in Int BY <1>1
    <3> QED BY <3>1, <3>2, Even
  <2>5. ~(c + a < 2 * h /\ 2 * h < c + b)
    <3>1. SUFFICES ASSUME c + a < 2 * h, 2 * h < c + b PROVE FALSE OBVIOUS
    <3>2. b - a = 2 /\ 2 * h = c + b - 1 BY <1>1, <1>2, <1>5, <3>1
    <3> QED BY <1>1, <2>4, <3>2
  <2>6. utc \in Int /\ utc >= floor /\ utc - floor <= 2 * h - wall + 2
    BY <1>1, <1>2, <1>5, <2>1, <2>2, <2>3, <2>5
  <2>7. L(utc) = 2 * h BY <1>1, <1>3, <1>5, <2>1, <2>6
  <2>8. ASSUME NEW t \in floor..(utc - 1)
        PROVE  /\ L(t) < 2 * h
               /\ \/ L(t) >= wall
                  \/ \E e \in Int : L(t) \in 2 * e .. 2 * e + 1 /\ wall \in 2 * e .. 2 * e + 1
    <3>1. t \in Int /\ floor <= t /\ t < utc BY <2>6
    <3>2. L(t) < 2 * h BY <1>1, <1>3, <1>5, <2>1, <2>2, <2>3, <3>1
    <3>3. CASE L(t) < wall
      <4>1. floor < c /\ c <= t BY <1>1, <1>3, <2>2, <3>1, <3>3
      <4>2. L(t) = t + a /\ wall = floor + b BY <1>1, <1>3, <2>2, <3>1, <4>1
      <4>3. c + a <= L(t) /\ L(t) < wall /\ wall < c + b BY <1>1, <3>1, <3>3, <4>1, <4>2
      <4>4. b - a = 2 BY <1>1, <1>2, <3>1, <4>2, <4>3
      <4>5. PICK k \in Int : c + b = 2 * k BY <2>4, <4>4
      <4>6. L(t) \in 2 * (k - 1) .. 2 * (k - 1) + 1 /\ wall \in 2 * (k - 1) .. 2 * (k - 1) + 1
        BY <1>1, <3>1, <4>2, <4>3, <4>4, <4>5
      <4>7. k - 1 \in Int OBVIOUS
      <4>8. \E e \in Int : L(t) \in 2 * e .. 2 * e + 1 /\ wall \in 2 * e .. 2 * e + 1
        BY <4>6, <4>7
      <4> QED BY <3>2, <4>8
    <3>4. CASE ~(L(t) < wall)
      <4>1. L(t) \in Int /\ wall \in Int BY <1>1, <1>3, <2>2, <3>1
      <4> QED BY <3>2, <3>4, <4>1
    <3> QED BY <3>3, <3>4
  <2> QED BY <2>6, <2>7, <2>8 DEF utc, wall, L
<1> QED BY <1>1, <1>4, <1>5

-----------------------------------------------------------------------------
\* What Insert writes down.
Timely(zone, windows, floor, time) ==
  /\ time >= floor
  /\ \A t \in floor..(time - 1) : ~InPeak(zone, windows, t)
  /\ InPeak(zone, windows, time) \/ (zone.before < zone.after /\ time = zone.change)

\* What compute_scheduled_at returns is the first peak time from the floor on.
LEMMA ScheduledTimely ==
  ASSUME NEW zone, Changes(zone), NEW windows, Good(windows), NEW floor \in Int
  PROVE  Timely(zone, windows, floor, ScheduledAt(zone, windows, floor))
<1> DEFINE wall == ToLocal(zone, floor)
           days == Days(windows, wall)
           day == Min(days)
           opens == From(windows, day)
           candidate == ToUtc(zone, opens)
           time == ScheduledAt(zone, windows, floor)
<1>1. wall \in Int BY DEF Changes, ToLocal
<1>2. \A t : InPeak(zone, windows, t) <=> Peak(windows, ToLocal(zone, t)) BY DEF InPeak, Peak
<1>3. time = IF \/ days = {} \/ Inside(windows, day, wall)
                \/ candidate > floor + 96
             THEN floor ELSE candidate
  BY DEF ScheduledAt, Days, Inside, Hour, PEAK_SCHEDULING_HORIZON_HOURS
<1>4. /\ days # {}
      /\ Inside(windows, day, wall) => Peak(windows, wall)
      /\ ~Inside(windows, day, wall) =>
           /\ \E h \in Int : opens = 2 * h
           /\ wall < opens /\ opens - wall <= 92
           /\ Peak(windows, opens) /\ ~Peak(windows, wall)
           /\ \A u \in wall..(opens - 1) : ~Peak(windows, u)
  BY <1>1, FirstDay
<1> HIDE DEF days, day, opens, time
<1>5. CASE Inside(windows, day, wall)
  <2>1. time = floor BY <1>3, <1>5
  <2>2. InPeak(zone, windows, floor) BY <1>2, <1>4, <1>5
  <2>3. \A t \in floor..(floor - 1) : FALSE OBVIOUS
  <2>4. floor >= floor OBVIOUS
  <2> QED BY <2>1, <2>2, <2>3, <2>4 DEF Timely, time
<1>6. CASE ~Inside(windows, day, wall)
  <2>1. PICK h \in Int : opens = 2 * h BY <1>4, <1>6
  <2>2. wall < 2 * h BY <1>4, <1>6, <2>1
  <2>3. /\ candidate \in Int /\ candidate >= floor /\ candidate - floor <= opens - wall + 2
        /\ ToLocal(zone, candidate) = opens \/ (zone.before < zone.after /\ candidate = zone.change)
        /\ \A t \in floor..(candidate - 1) :
             /\ ToLocal(zone, t) < opens
             /\ \/ ToLocal(zone, t) >= wall
                \/ \E e \in Int : ToLocal(zone, t) \in 2 * e .. 2 * e + 1
                                  /\ wall \in 2 * e .. 2 * e + 1
    BY <2>1, <2>2, ClockChange
  <2> HIDE DEF wall, candidate
  <2>4. time = candidate
    <3>1. ~(candidate > floor + 96) BY <1>1, <1>4, <1>6, <2>1, <2>3
    <3> QED BY <1>3, <1>4, <1>6, <3>1
  <2>5. InPeak(zone, windows, candidate) \/ (zone.before < zone.after /\ candidate = zone.change)
    BY <1>2, <1>4, <1>6, <2>3
  <2>6. ASSUME NEW t \in floor..(candidate - 1) PROVE ~InPeak(zone, windows, t)
    <3> DEFINE u == ToLocal(zone, t)
    <3>1. u < opens /\ (u >= wall \/ \E e \in Int : u \in 2 * e .. 2 * e + 1
                                                   /\ wall \in 2 * e .. 2 * e + 1)
      BY <2>3
    <3>2. t \in Int BY <2>3
    <3>3. u \in Int BY <3>2 DEF Changes, ToLocal
    <3> HIDE DEF u
    <3>4. CASE u >= wall
      <4>1. u \in wall..(opens - 1) BY <1>1, <2>1, <3>1, <3>3, <3>4
      <4>2. ~Peak(windows, u) BY <1>4, <1>6, <4>1
      <4> QED BY <1>2, <4>2 DEF u
    <3>5. CASE \E e \in Int : u \in 2 * e .. 2 * e + 1 /\ wall \in 2 * e .. 2 * e + 1
      <4>1. ~Peak(windows, wall) BY <1>4, <1>6
      <4>2. ~Peak(windows, u) BY <3>5, <4>1, SameHour
      <4> QED BY <1>2, <4>2 DEF u
    <3> QED BY <3>1, <3>4, <3>5
  <2> QED BY <2>3, <2>4, <2>5, <2>6 DEF Timely, time
<1> QED BY <1>5, <1>6

TimeInv ==
  /\ plan = NoPlan \/ plan \in Plans
  /\ due # Never =>
       plan # NoPlan /\ Timely(plan.zone, Windows(plan.config, plan.type), plan.floor, due)

\* Only Insert sets a time, and sets a timely one.
LEMMA TimeStep == TimeInv /\ [Next]_vars => TimeInv'
<1> SUFFICES ASSUME TimeInv, [Next]_vars PROVE TimeInv' OBVIOUS
<1>1. CASE Insert
  <2>1. plan \in Plans /\ plan' = plan BY <1>1 DEF Insert, TimeInv
  <2>2. /\ plan.zone \in Zones /\ plan.floor \in Floors /\ plan.type \in Types BY <2>1 DEF Plans
  <2>3. Changes(plan.zone) /\ plan.floor \in Int BY <2>2, ClocksAssumption DEF Changes
  <2>4. Good(Windows(plan.config, plan.type)) BY <2>2, WindowsGood
  <2>5. Timely(plan.zone, Windows(plan.config, plan.type), plan.floor, due')
    BY <1>1, <2>3, <2>4, ScheduledTimely DEF Insert
  <2> QED BY <1>1, <2>1, <2>5 DEF Insert, TimeInv
<1>2. CASE Begins BY <1>2 DEF Begins, TimeInv
<1>3. CASE UNCHANGED row BY <1>3 DEF TimeInv, row
<1>4. CallStep \/ Crash \/ Render \/ UNCHANGED vars => UNCHANGED row
  BY DEF CallStep, RefusesEmpty, GetsToken, OpensSession, Reads, ReadsNothing, Stores,
         Refuses, TimesOut, GoesOn, Returns, Raises, Crash, Render, RenderTruncates,
         RenderAppends, RenderEnds, vars, row
<1> QED BY <1>1, <1>2, <1>3, <1>4 DEF Next

(* compute_scheduled_at, for every channel zone whose clocks change by at  *)
(* most an hour (a whole one on the hour), windows of its own or the       *)
(* defaults, and every earliest time: the first peak time from then on,    *)
(* never later than the horizon, which therefore never decides.            *)
THEOREM FirstPeak == Spec => []EarliestPeak
<1>1. Init => TimeInv BY DEF Init, TimeInv
<1>2. TimeInv => EarliestPeak BY DEF TimeInv, EarliestPeak, AtPeak, Timely
<1> QED BY <1>1, <1>2, TimeStep, PTL DEF Spec
===============================================================================
