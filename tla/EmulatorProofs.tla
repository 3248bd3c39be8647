--------------------------- MODULE EmulatorProofs ---------------------------
(* What Emulator.tla promises of save states and of the user's requests,    *)
(* proved for any number of fields, any size of the buffer and any bounds.  *)
EXTENDS Emulator, WellFoundedInduction, TLAPS

\* Nothing is being saved or restored but in the phases that do that.
IdleInv ==
  /\ phase # "saving" => buf = <<>>
  /\ phase \notin {"saving", "loading", "booting"} => at = 0

\* What has been saved so far is in the file and, behind that, in the buffer.
SavingInv ==
  phase = "saving" =>
    /\ file.exists /\ machine = Whole(saved)
    /\ Len(file.fields) = at - Len(buf)
    /\ \A k \in 1..Len(buf) : buf[k] = saved

FileInv == \A k \in 1..Len(file.fields) : file.fields[k] = saved

\* What has been restored so far is what was saved.
LoadingInv ==
  phase \in {"loading", "booting"} =>
    /\ at <= Len(file.fields)
    /\ \A k \in 1..at : machine[k] = saved

RunningInv == phase \in {"frame", "acting", "paused"} => \E age \in Ages : machine = Whole(age)

IInv == TypeOK /\ IdleInv /\ SavingInv /\ FileInv /\ LoadingInv /\ RunningInv

-----------------------------------------------------------------------------
(* Lemmas about the operators.                                             *)

LEMMA WholeType == \A age \in Ages : Whole(age) \in [1..Fields -> Ages]
BY DEF Whole

LEMMA Joined ==
  ASSUME NEW T, NEW s \in Seq(T), NEW t \in Seq(T)
  PROVE  s \o t \in Seq(T) /\ Len(s \o t) = Len(s) + Len(t)
OBVIOUS

LEMMA LaterType == ASSUME NEW T, NEW s \in Seq(T) PROVE Later(s) \in Seq(T)
BY DEF Later

\* The first position that satisfies a test.
LEMMA FirstIsOne ==
  ASSUME NEW I \in SUBSET Nat, I # {}
  PROVE  Min(I) \in I /\ \A n \in I : Min(I) <= n
<1> DEFINE R == OpToRel(<, Nat)
<1>1. IsWellFoundedOn(R, Nat)
  BY NatLessThanWellFounded
<1>2. PICK m \in I : \A n \in I : ~(<<n, m>> \in R)
  BY <1>1, WFMin
<1>3. R = {ss \in Nat \X Nat : ss[1] < ss[2]}
  BY Zenon DEF OpToRel
<1> HIDE DEF R
<1>e. \A x, y \in Nat : x < y => <<x, y>> \in R
  BY <1>3
<1>4. ASSUME NEW n \in I PROVE m <= n
  <2>1. m \in Nat /\ n \in Nat
    OBVIOUS
  <2>2. ~(<<n, m>> \in R)
    BY <1>2
  <2>3. ~(n < m)
    BY <1>e, <2>1, <2>2
  <2>4. QED BY <2>1, <2>3
<1>5. QED
  BY <1>2, <1>4 DEF Min

LEMMA PollType ==
  ASSUME NEW queue \in Seq(Events), Len(queue) <= MaxQueue
  PROVE  /\ Poll(queue).events \in Seq(Events) /\ Len(Poll(queue).events) <= MaxQueue
         /\ Poll(queue).actions \in Seq(Range(ActionOf))
<1> DEFINE I == {i \in 1..Len(queue) : IsAction(queue[i])}
           k == SelectInSeq(queue, IsAction)
<1>1. k = IF I # {} THEN Min(I) ELSE 0
  BY DEF SelectInSeq
<1>2. I \in SUBSET Nat
  OBVIOUS
<1>3. k = 0 \/ k \in I
  BY <1>1, <1>2, FirstIsOne
<1>p. Poll(queue) = [events |-> IF k = 0 THEN <<>> ELSE SubSeq(queue, k + 1, Len(queue)),
                     actions |-> IF k = 0 THEN <<>> ELSE <<ActionOf[queue[k]]>>]
  BY Zenon DEF Poll
<1> HIDE DEF k
<1>4. CASE k = 0
  BY <1>4, <1>p, EmulatorAssumption
<1>5. CASE k \in I
  <2>1. SubSeq(queue, k + 1, Len(queue)) \in Seq(Events)
        /\ Len(SubSeq(queue, k + 1, Len(queue))) <= Len(queue)
    BY <1>5
  <2>2. ActionOf[queue[k]] \in Range(ActionOf)
    BY <1>5 DEF IsAction, Range
  <2>3. k # 0
    BY <1>5
  <2>4. QED
    BY <2>1, <2>2, <2>3, <1>p, EmulatorAssumption
<1>6. QED
  BY <1>3, <1>4, <1>5

\* Writing n fields of the buffer behind a file that the rest of the state is in.
LEMMA WrittenFields ==
  ASSUME IInv, phase = "saving", NEW n \in 0..Len(buf)
  PROVE  /\ Written(n).exists
         /\ Written(n).fields \in Seq(Ages)
         /\ Len(Written(n).fields) = at - Len(buf) + n
         /\ \A k \in 1..Len(Written(n).fields) : Written(n).fields[k] = saved
<1> DEFINE F == file.fields
           a == SubSeq(F, 1, at - Len(buf))
           b == SubSeq(buf, 1, n)
           c == SubSeq(F, at - Len(buf) + n + 1, Len(F))
<1>1. /\ F \in Seq(Ages) /\ buf \in Seq(Ages) /\ Len(F) = at - Len(buf) /\ at \in Nat
      /\ \A k \in 1..Len(F) : F[k] = saved
      /\ \A k \in 1..Len(buf) : buf[k] = saved
  BY DEF IInv, TypeOK, SavingInv, FileInv
<1>2. a = F /\ c = <<>>
  BY <1>1
<1>3. b \in Seq(Ages) /\ Len(b) = n /\ \A k \in 1..n : b[k] = buf[k]
  BY <1>1
<1>4. Written(n) = File(a \o b \o c)
  BY DEF Written
<1> HIDE DEF a, b, c, F
<1>5. a \o b \o c = F \o b
  BY <1>1, <1>2, <1>3
<1>6. /\ F \o b \in Seq(Ages) /\ Len(F \o b) = Len(F) + n
      /\ \A k \in 1..Len(F \o b) : (F \o b)[k] = saved
  <2>1. F \o b \in Seq(Ages) /\ Len(F \o b) = Len(F) + n
    BY <1>1, <1>3, Joined
  <2>2. ASSUME NEW k \in 1..Len(F \o b) PROVE (F \o b)[k] = saved
    <3>1. (F \o b)[k] = IF k <= Len(F) THEN F[k] ELSE b[k - Len(F)]
      BY <1>1, <1>3, <2>1
    <3>2. CASE k <= Len(F)
      BY <1>1, <2>1, <3>1, <3>2
    <3>3. CASE k > Len(F)
      <4>1. k - Len(F) \in 1..n /\ k - Len(F) \in 1..Len(buf)
        BY <1>1, <2>1, <3>3
      <4>2. (F \o b)[k] = b[k - Len(F)]
        BY <1>1, <2>1, <3>1, <3>3
      <4>3. b[k - Len(F)] = buf[k - Len(F)] /\ buf[k - Len(F)] = saved
        BY <1>1, <1>3, <4>1
      <4>4. QED BY <4>2, <4>3
    <3>4. QED BY <1>1, <2>1, <3>2, <3>3
  <2>3. QED BY <2>1, <2>2
<1>7. QED
  BY <1>1, <1>4, <1>5, <1>6 DEF File

-----------------------------------------------------------------------------
(* The invariant.                                                          *)

LEMMA InitInv == Init => IInv
<1> SUFFICES ASSUME Init PROVE IInv
  OBVIOUS
<1> USE EmulatorAssumption DEF Init, NONE
<1>1. TypeOK
  <2>0. machine = Whole(0) /\ clock = 0 /\ saved = 0 /\ at = 0 /\ 0 \in Ages /\ 0 \in 0..Fields
    BY DEF Ages
  <2>1. machine \in [1..Fields -> Ages] /\ clock \in Ages /\ saved \in Ages /\ at \in 0..Fields
    BY <2>0, WholeType, Zenon
  <2>2. phase \in Phases /\ opts \in [input : WithInput, oneframe : BOOLEAN]
    BY DEF Phases, WithInput
  <2>3. file.exists \in BOOLEAN /\ file.fields = <<>>
    OBVIOUS
  <2>4. \A T : <<>> \in Seq(T) /\ Len(<<>>) = 0
    OBVIOUS
  <2>5. Fields >= 0 /\ BufSize >= 0 /\ MaxQueue >= 0
    OBVIOUS
  <2>6. /\ events = <<>> /\ actions = <<>> /\ asked = <<>> /\ buf = <<>>
    OBVIOUS
  <2> HIDE DEF Init
  <2>7. QED BY <2>1, <2>2, <2>3, <2>4, <2>5, <2>6 DEF TypeOK
<1>2. IdleInv /\ SavingInv /\ FileInv /\ LoadingInv /\ RunningInv
  BY DEF IdleInv, SavingInv, FileInv, LoadingInv, RunningInv
<1>3. QED BY <1>1, <1>2 DEF IInv

\* The process ends, with a file of the state that was saved.
LEMMA EndKeeps ==
  ASSUME IInv, End, saved' = saved, file'.exists \in BOOLEAN,
         file'.fields \in Seq(Ages), Len(file'.fields) <= Fields,
         \A k \in 1..Len(file'.fields) : file'.fields[k] = saved
  PROVE  IInv'
<1> USE EmulatorAssumption DEF IInv, End
<1>1. TypeOK'
  BY DEF TypeOK, Phases
<1>2. IdleInv' /\ SavingInv' /\ FileInv' /\ LoadingInv' /\ RunningInv'
  BY DEF IdleInv, SavingInv, FileInv, LoadingInv, RunningInv
<1>3. QED BY <1>1, <1>2

\* A step that starts, goes on emulating or handles an action.
LEMMA EmulateKeeps ==
  ASSUME IInv,
         \/ \E input \in WithInput, oneframe, savestate \in BOOLEAN : Start(input, oneframe, savestate)
         \/ \E e \in Events : Event(e)
         \/ Frame \/ RenderPaused \/ ActionsDone
  PROVE  IInv'
<1> USE EmulatorAssumption DEF IInv
<1>1. ASSUME NEW input \in WithInput, NEW oneframe \in BOOLEAN, NEW savestate \in BOOLEAN,
             Start(input, oneframe, savestate)
      PROVE  IInv'
  <2>1. TypeOK'
    <3>0. machine' = Whole(0) /\ 0 \in Ages
      BY <1>1 DEF Start, Ages
    <3>1. machine' \in [1..Fields -> Ages]
      BY <3>0, WholeType, Zenon
    <3>2. phase' \in Phases /\ opts' \in [input : WithInput, oneframe : BOOLEAN]
      BY <1>1 DEF Start, Phases
    <3>3. QED BY <1>1, <3>1, <3>2 DEF Start, TypeOK
  <2>2. IdleInv' /\ SavingInv' /\ FileInv'
    BY <1>1 DEF Start, IdleInv, SavingInv, FileInv
  <2>3. LoadingInv' /\ RunningInv'
    BY <1>1 DEF Start, IdleInv, LoadingInv, RunningInv, TypeOK, Ages
  <2>4. QED BY <2>1, <2>2, <2>3
<1>2. ASSUME NEW e \in Events, Event(e) PROVE IInv'
  <2>1. events' \in Seq(Events) /\ Len(events') <= MaxQueue
    BY <1>2 DEF Event, TypeOK
  <2>2. asked' \in Seq(Range(ActionOf))
    <3>1. e \in DOMAIN ActionOf => ActionOf[e] \in Range(ActionOf)
      BY DEF Range
    <3>2. QED BY <1>2, <3>1 DEF Event, TypeOK
  <2>3. TypeOK'
    BY <1>2, <2>1, <2>2 DEF Event, TypeOK
  <2>4. IdleInv' /\ SavingInv' /\ FileInv' /\ LoadingInv' /\ RunningInv'
    BY <1>2 DEF Event, IdleInv, SavingInv, FileInv, LoadingInv, RunningInv
  <2>5. QED BY <2>3, <2>4
<1>3. ASSUME Frame PROVE IInv'
  <2>1. clock' \in Ages /\ machine' = Whole(clock')
    BY <1>3 DEF Frame, TypeOK, Ages
  <2>2. TypeOK'
    <3>1. CASE opts.oneframe
      BY <1>3, <2>1, <3>1, WholeType DEF Frame, TypeOK, Phases
    <3>2. CASE ~opts.oneframe
      BY <1>3, <2>1, <3>2, WholeType, PollType DEF Frame, TypeOK, Phases
    <3>3. QED BY <3>1, <3>2
  <2>3. phase' \in {"paused", "acting"} /\ UNCHANGED <<file, buf, at, saved>> /\ phase = "frame"
    BY <1>3 DEF Frame
  <2>4. IdleInv' /\ SavingInv' /\ FileInv' /\ LoadingInv' /\ RunningInv'
    BY <2>1, <2>3 DEF IdleInv, SavingInv, FileInv, LoadingInv, RunningInv
  <2>5. QED BY <2>2, <2>4
<1>4. ASSUME RenderPaused \/ ActionsDone PROVE IInv'
  <2>1. TypeOK'
    BY <1>4, PollType DEF RenderPaused, ActionsDone, TypeOK, Phases
  <2>2. /\ phase' \in {"paused", "acting", "frame"} /\ phase \in {"paused", "acting"}
        /\ UNCHANGED <<machine, file, buf, at, saved>>
    BY <1>4 DEF RenderPaused, ActionsDone
  <2>3. IdleInv' /\ SavingInv' /\ FileInv' /\ LoadingInv' /\ RunningInv'
    BY <2>2 DEF IdleInv, SavingInv, FileInv, LoadingInv, RunningInv
  <2>4. QED BY <2>1, <2>3
<1>5. QED BY <1>1, <1>2, <1>3, <1>4

LEMMA KillKeeps ==
  ASSUME IInv, Kill PROVE IInv'
<1>1. /\ file.exists \in BOOLEAN /\ file.fields \in Seq(Ages) /\ Len(file.fields) <= Fields
      /\ \A k \in 1..Len(file.fields) : file.fields[k] = saved
  BY DEF IInv, TypeOK, FileInv
<1>2. QED BY <1>1, EndKeeps DEF Kill

LEMMA ExitKeeps ==
  ASSUME IInv, Exit PROVE IInv'
<1> USE EmulatorAssumption DEF IInv
<1>1. CASE opts.oneframe
  <2>1. actions' = <<>> /\ asked' = Later(asked)
        /\ UNCHANGED <<phase, opts, machine, clock, events, buf, at, file, saved>>
    BY <1>1 DEF Exit
  <2>2. TypeOK'
    BY <2>1, LaterType DEF TypeOK
  <2>3. IdleInv' /\ SavingInv' /\ FileInv' /\ LoadingInv' /\ RunningInv'
    BY <2>1 DEF IdleInv, SavingInv, FileInv, LoadingInv, RunningInv
  <2>4. QED BY <2>2, <2>3
<1>2. CASE ~opts.oneframe
  <2>1. /\ file.exists \in BOOLEAN /\ file.fields \in Seq(Ages) /\ Len(file.fields) <= Fields
        /\ \A k \in 1..Len(file.fields) : file.fields[k] = saved
    BY DEF TypeOK, FileInv
  <2>2. QED BY <1>2, <2>1, EndKeeps DEF Exit
<1>3. QED BY <1>1, <1>2

\* The steps of saving.
LEMMA SaveKeeps ==
  ASSUME IInv, Save PROVE IInv'
<1> USE EmulatorAssumption DEF IInv
<1>1. /\ phase = "acting" /\ phase' = "saving" /\ saved' = machine[1] /\ at' = 0 /\ buf' = buf
      /\ file' = [fields |-> <<>>, exists |-> TRUE] /\ machine' = machine
      /\ actions # <<>> /\ actions' = Tail(actions) /\ asked' = Later(asked)
      /\ UNCHANGED <<opts, clock, events>>
  BY DEF Save, Handled, File
<1>2. saved' \in Ages
  BY <1>1 DEF TypeOK
<1>3. TypeOK'
  BY <1>1, <1>2, LaterType DEF TypeOK, Phases
<1>4. machine' = Whole(saved')
  <2>1. PICK age \in Ages : machine = Whole(age)
    BY <1>1 DEF RunningInv
  <2>2. machine[1] = age
    BY <2>1 DEF Whole
  <2>3. QED BY <1>1, <2>1, <2>2
<1>5. buf = <<>>
  BY <1>1 DEF IdleInv
<1>6. /\ file'.exists /\ Len(file'.fields) = 0 /\ Len(buf') = 0
      /\ machine' = Whole(saved') /\ phase' = "saving"
  BY <1>1, <1>4, <1>5
<1>7. SavingInv'
  BY <1>1, <1>6 DEF SavingInv
<1>8. IdleInv' /\ FileInv' /\ LoadingInv' /\ RunningInv'
  BY <1>6 DEF IdleInv, FileInv, LoadingInv, RunningInv
<1>9. QED BY <1>3, <1>7, <1>8

LEMMA SaveFieldKeeps ==
  ASSUME IInv, SaveField PROVE IInv'
<1> USE EmulatorAssumption
<1>1. /\ phase = "saving" /\ at < Fields /\ at' = at + 1
      /\ UNCHANGED <<phase, opts, machine, clock, events, actions, asked, saved>>
  BY DEF SaveField
<1>2. /\ at \in 0..Fields /\ at + 1 \in 1..Fields /\ saved \in Ages /\ buf \in Seq(Ages)
      /\ Len(buf) <= BufSize /\ Len(file.fields) = at - Len(buf) /\ machine = Whole(saved)
      /\ \A k \in 1..Len(buf) : buf[k] = saved
  BY <1>1 DEF IInv, TypeOK, SavingInv
<1>3. machine[at + 1] = saved
  BY <1>2 DEF Whole
<1>4. CASE Len(buf) < BufSize
  <2>1. buf' = Append(buf, saved) /\ file' = file
    BY <1>3, <1>4 DEF SaveField
  <2>2. /\ buf' \in Seq(Ages) /\ Len(buf') = Len(buf) + 1
        /\ \A k \in 1..Len(buf') : buf'[k] = saved
    BY <1>2, <2>1
  <2>3. TypeOK'
    BY <1>1, <1>2, <1>4, <2>1, <2>2 DEF IInv, TypeOK
  <2>4. file.exists /\ Len(file.fields) = at + 1 - Len(buf')
    <3>1. Len(buf) \in Nat
      BY <1>2
    <3>2. QED BY <1>1, <1>2, <2>2, <3>1 DEF IInv, SavingInv
  <2>5. SavingInv'
    BY <1>1, <1>2, <2>1, <2>2, <2>4 DEF SavingInv
  <2>6. IdleInv' /\ FileInv' /\ LoadingInv' /\ RunningInv'
    BY <1>1, <2>1 DEF IInv, IdleInv, FileInv, LoadingInv, RunningInv
  <2>7. QED BY <2>3, <2>5, <2>6 DEF IInv
<1>5. CASE ~(Len(buf) < BufSize)
  <2>1. buf' = <<saved>> /\ file' = Written(Len(buf))
    BY <1>3, <1>5 DEF SaveField
  <2>2. /\ file'.exists /\ file'.fields \in Seq(Ages) /\ Len(file'.fields) = at
        /\ \A k \in 1..Len(file'.fields) : file'.fields[k] = saved
    BY <1>1, <1>2, <2>1, WrittenFields
  <2>3. buf' \in Seq(Ages) /\ Len(buf') = 1 /\ buf'[1] = saved
    BY <1>2, <2>1
  <2>4. TypeOK'
    BY <1>1, <1>2, <2>2, <2>3 DEF IInv, TypeOK
  <2>5. IdleInv' /\ SavingInv' /\ FileInv' /\ LoadingInv' /\ RunningInv'
    BY <1>1, <1>2, <2>2, <2>3 DEF IInv, IdleInv, SavingInv, FileInv, LoadingInv, RunningInv
  <2>6. QED BY <2>4, <2>5 DEF IInv
<1>6. QED BY <1>4, <1>5

LEMMA SaveFailsKeeps ==
  ASSUME IInv, SaveFails PROVE IInv'
<1>1. PICK n \in 0..(Len(buf) - 1) : file' = Written(n)
  BY DEF SaveFails
<1>2. phase = "saving" /\ at \in 0..Fields /\ n \in 0..Len(buf) /\ Len(buf) \in Nat /\ n < Len(buf)
  BY DEF SaveFails, IInv, TypeOK
<1>3. /\ file'.exists /\ file'.fields \in Seq(Ages) /\ Len(file'.fields) = at - Len(buf) + n
      /\ \A k \in 1..Len(file'.fields) : file'.fields[k] = saved
  BY <1>1, <1>2, WrittenFields
<1>4. Len(file'.fields) <= Fields
  BY <1>2, <1>3, EmulatorAssumption
<1>5. QED BY <1>3, <1>4, EndKeeps DEF SaveFails

LEMMA SaveEndsKeeps ==
  ASSUME IInv, SaveEnds PROVE IInv'
<1> USE EmulatorAssumption
<1>1. PICK n \in 0..Len(buf) : file' = Written(n)
  BY DEF SaveEnds
<1>2. /\ phase = "saving" /\ at = Fields /\ buf' = <<>> /\ at' = 0 /\ phase' = "acting"
      /\ UNCHANGED <<opts, machine, clock, events, actions, asked, saved>>
  BY DEF SaveEnds
<1>3. /\ file'.exists /\ file'.fields \in Seq(Ages) /\ Len(file'.fields) = at - Len(buf) + n
      /\ \A k \in 1..Len(file'.fields) : file'.fields[k] = saved
  BY <1>1, <1>2, WrittenFields
<1>4. /\ Len(file'.fields) <= Fields /\ machine = Whole(saved) /\ saved \in Ages
  BY <1>2, <1>3 DEF IInv, TypeOK, SavingInv
<1>5. TypeOK'
  BY <1>2, <1>3, <1>4 DEF IInv, TypeOK, Phases
<1>6. IdleInv' /\ SavingInv' /\ FileInv' /\ LoadingInv' /\ RunningInv'
  BY <1>2, <1>3, <1>4 DEF IInv, IdleInv, SavingInv, FileInv, LoadingInv, RunningInv
<1>7. QED BY <1>5, <1>6 DEF IInv

-----------------------------------------------------------------------------
(* The steps of restoring.                                                 *)

LEMMA LoadKeeps ==
  ASSUME IInv, Load PROVE IInv'
<1> USE EmulatorAssumption
<1>1. phase = "acting" /\ UNCHANGED <<file, saved>>
  BY DEF Load
<1>2. /\ file.exists \in BOOLEAN /\ file.fields \in Seq(Ages) /\ Len(file.fields) <= Fields
      /\ \A k \in 1..Len(file.fields) : file.fields[k] = saved
  BY DEF IInv, TypeOK, FileInv
<1>3. CASE End
  BY <1>1, <1>2, <1>3, EndKeeps
<1>4. CASE /\ Handled /\ actions # <<>> /\ phase' \in {"acting", "loading"}
           /\ UNCHANGED <<opts, machine, clock, events, buf, at>>
  <2>1. TypeOK'
    BY <1>1, <1>4, LaterType DEF IInv, TypeOK, Handled, Phases
  <2>2. IdleInv' /\ SavingInv' /\ FileInv' /\ LoadingInv' /\ RunningInv'
    BY <1>1, <1>4 DEF IInv, TypeOK, IdleInv, SavingInv, FileInv, LoadingInv, RunningInv
  <2>3. QED BY <2>1, <2>2 DEF IInv
<1>5. QED BY <1>1, <1>3, <1>4 DEF Load

LEMMA LoadFieldKeeps ==
  ASSUME IInv, LoadField PROVE IInv'
<1> USE EmulatorAssumption
<1>1. /\ phase \in {"loading", "booting"} /\ at < Fields /\ at < Len(file.fields) /\ at' = at + 1
      /\ machine' = [machine EXCEPT ![at + 1] = file.fields[at + 1]]
      /\ UNCHANGED <<phase, opts, clock, events, actions, file, buf, asked, saved>>
  BY DEF LoadField
<1>2. at \in 0..Fields /\ at + 1 \in 1..Fields /\ at + 1 \in 1..Len(file.fields)
      /\ file.fields[at + 1] = saved /\ saved \in Ages /\ machine \in [1..Fields -> Ages]
  BY <1>1 DEF IInv, TypeOK, FileInv
<1>3. machine' \in [1..Fields -> Ages] /\ at' \in 0..Fields /\ at' <= Len(file.fields)
  BY <1>1, <1>2 DEF IInv, TypeOK
<1>4. TypeOK'
  BY <1>1, <1>3 DEF IInv, TypeOK
<1>5. \A k \in 1..at' : machine'[k] = saved
  BY <1>1, <1>2 DEF IInv, LoadingInv
<1>6. IdleInv' /\ SavingInv' /\ FileInv' /\ LoadingInv' /\ RunningInv'
  BY <1>1, <1>3, <1>5 DEF IInv, IdleInv, SavingInv, FileInv, LoadingInv, RunningInv
<1>7. QED BY <1>4, <1>6 DEF IInv

\* A console that has been restored is in the state that was saved.
LEMMA RestoredWhole ==
  ASSUME IInv, phase \in {"loading", "booting"}, at = Fields
  PROVE  machine = Whole(saved)
BY DEF IInv, LoadingInv, TypeOK, Whole

LEMMA LoadEndsKeeps ==
  ASSUME IInv, LoadEnds PROVE IInv'
<1> USE EmulatorAssumption
<1>1. /\ phase \in {"loading", "booting"} /\ at = Fields /\ at' = 0 /\ phase' \in {"frame", "acting"}
      /\ UNCHANGED <<opts, machine, clock, events, actions, file, buf, asked, saved>>
  BY DEF LoadEnds
<1>2. machine' = Whole(saved) /\ saved \in Ages
  BY <1>1, RestoredWhole DEF IInv, TypeOK
<1>3. TypeOK'
  BY <1>1 DEF IInv, TypeOK, Phases
<1>4. IdleInv' /\ SavingInv' /\ FileInv' /\ LoadingInv' /\ RunningInv'
  BY <1>1, <1>2 DEF IInv, IdleInv, SavingInv, FileInv, LoadingInv, RunningInv
<1>5. QED BY <1>3, <1>4 DEF IInv

LEMMA LoadFailsKeeps ==
  ASSUME IInv, LoadFails PROVE IInv'
<1>1. /\ file.exists \in BOOLEAN /\ file.fields \in Seq(Ages) /\ Len(file.fields) <= Fields
      /\ \A k \in 1..Len(file.fields) : file.fields[k] = saved
  BY DEF IInv, TypeOK, FileInv
<1>2. QED BY <1>1, EndKeeps DEF LoadFails

-----------------------------------------------------------------------------
LEMMA StepInv == IInv /\ [Next]_vars => IInv'
<1> SUFFICES ASSUME IInv, [Next]_vars PROVE IInv'
  OBVIOUS
<1>1. CASE Process
  BY <1>1, EmulateKeeps, ExitKeeps, SaveKeeps, SaveFieldKeeps, SaveFailsKeeps, SaveEndsKeeps,
     LoadKeeps, LoadFieldKeeps, LoadFailsKeeps, LoadEndsKeeps DEF Process
<1>2. CASE Kill
  BY <1>2, KillKeeps
<1>3. CASE \/ \E e \in Events : Event(e)
           \/ \E input \in WithInput, oneframe, savestate \in BOOLEAN :
                Start(input, oneframe, savestate)
  BY <1>3, EmulateKeeps
<1>4. CASE UNCHANGED vars
  BY <1>4 DEF vars, IInv, TypeOK, IdleInv, SavingInv, FileInv, LoadingInv, RunningInv
<1>5. QED BY <1>1, <1>2, <1>3, <1>4 DEF Next

LEMMA InvAlways == Spec => []IInv
BY InitInv, StepInv, PTL DEF Spec

\* Process, console, file and buffer keep their types, for any number of fields.
THEOREM EmulatorTypeCorrect == Spec => []TypeOK
<1>1. IInv => TypeOK
  BY DEF IInv
<1>2. QED BY <1>1, InvAlways, PTL

\* The console never runs in a state put together from two, nor saves one,
\* wherever saving was cut off and the process started again (handle_action,
\* create_save_state, restore_save_state).
THEOREM ConsoleNeverTorn == Spec => []NeverTorn
<1>1. IInv => NeverTorn
  BY DEF IInv, TypeOK, Phases, SavingInv, RunningInv, NeverTorn
<1>2. QED BY <1>1, InvAlways, PTL

\* What is in the file is of the one state saved last, and a restored console
\* is in that state.
THEOREM FileHasOneState == Spec => []FileOfOneState
<1>1. IInv => FileOfOneState
  BY RestoredWhole DEF IInv, FileInv, FileOfOneState
<1>2. QED BY <1>1, InvAlways, PTL

-----------------------------------------------------------------------------
(* What the user asks for.                                                  *)

\* The process holds back one action at most, and only where it handles
\* actions; what it has polled and what waits is what was asked for.
QueueInv ==
  /\ Len(actions) <= 1
  /\ phase \in {"off", "frame", "paused", "booting"} => actions = <<>>
  /\ phase = "off" => events = <<>> /\ asked = <<>>
  /\ ActionsInOrder

Requests == Range(ActionOf)

LEMMA ActionsAre == \A e \in DOMAIN ActionOf : ActionOf[e] \in Requests
BY DEF Requests, Range

LEMMA NoneOfNothing ==
  ASSUME NEW nothing, nothing = <<>>, NEW none, none = <<>>
  PROVE  /\ SubSeq(nothing, 1, Len(none)) = <<>>
         /\ SubSeq(nothing, Len(none) + 1, Len(nothing)) = <<>>
<1>1. nothing \in Seq({}) /\ Len(nothing) = 0 /\ Len(none) = 0
  OBVIOUS
<1>2. SubSeq(nothing, 1, 0) \in Seq({}) /\ Len(SubSeq(nothing, 1, 0)) = 0
  BY <1>1
<1>3. SubSeq(nothing, 1, 0) = <<>>
  BY <1>2
<1>4. QED
  BY <1>1, <1>3

LEMMA RestAppended ==
  ASSUME NEW T, NEW seq \in Seq(T), NEW e \in T, NEW l \in 0..Len(seq)
  PROVE  SubSeq(Append(seq, e), l + 1, Len(seq) + 1) = Append(SubSeq(seq, l + 1, Len(seq)), e)
<1> DEFINE n == Len(seq)
           a == SubSeq(Append(seq, e), l + 1, n + 1)
           b == SubSeq(seq, l + 1, n)
           c == Append(b, e)
<1>0. n \in Nat /\ l \in Nat /\ l <= n
  OBVIOUS
<1>1. Append(seq, e) \in Seq(T) /\ Len(Append(seq, e)) = n + 1
  OBVIOUS
<1>2. a \in Seq(T) /\ Len(a) = n - l + 1
  BY <1>0, <1>1
<1>3. b \in Seq(T) /\ Len(b) = n - l
  BY <1>0
<1>4. c \in Seq(T) /\ Len(c) = n - l + 1
  BY <1>3
<1>5. ASSUME NEW k \in 1..(n - l + 1) PROVE a[k] = c[k]
  <2>1. a[k] = Append(seq, e)[l + k]
    BY <1>0, <1>1
  <2>2. CASE k = n - l + 1
    <3>1. l + k = n + 1
      BY <2>2, <1>0
    <3>2. Append(seq, e)[n + 1] = e
      OBVIOUS
    <3>3. c[n - l + 1] = e
      BY <1>3
    <3>4. QED
      BY <2>1, <2>2, <3>1, <3>2, <3>3
  <2>3. CASE k # n - l + 1
    <3>1. k \in 1..(n - l) /\ l + k \in 1..n
      BY <2>3, <1>0
    <3>2. c[k] = b[k]
      BY <3>1, <1>3
    <3>3. b[k] = seq[l + k]
      BY <3>1, <1>0
    <3>4. Append(seq, e)[l + k] = seq[l + k]
      BY <3>1
    <3>5. QED
      BY <2>1, <3>2, <3>3, <3>4
  <2>4. QED
    BY <2>2, <2>3
<1> HIDE DEF a, b, c
<1>6. a = c
  BY <1>0, <1>2, <1>4, <1>5
<1>7. QED
  BY <1>6 DEF a, b, c

\* The places Asks speaks of.
Placed(place, want, queue, dw, dq) ==
  /\ {place[k] : k \in dw} = {i \in dq : IsAction(queue[i])}
  /\ \A j, k \in dw : j < k => place[j] < place[k]
  /\ \A k \in dw : want[k] = ActionOf[queue[place[k]]]

LEMMA AsksIs ==
  ASSUME NEW want, NEW queue, NEW dw, NEW dq, DOMAIN want = dw, DOMAIN queue = dq,
         NEW place \in [dw -> dq], Placed(place, want, queue, dw, dq)
  PROVE  Asks(want, queue)
<1>1. Placed(place, want, queue, DOMAIN want, DOMAIN queue)
  OBVIOUS
<1>2. place \in [DOMAIN want -> DOMAIN queue]
  OBVIOUS
<1>3. QED
  BY <1>1, <1>2 DEF Asks, Placed

LEMMA AsksNothing == Asks(<<>>, <<>>)
<1> DEFINE place == [k \in {} |-> 0]
<1>1. place \in [DOMAIN <<>> -> DOMAIN <<>>]
  OBVIOUS
<1>2. QED
  BY <1>1 DEF Asks

\* An event goes to the end of the queue, and what it asks for to the end.
LEMMA AsksMore ==
  ASSUME NEW want \in Seq(Requests), NEW queue \in Seq(Events), Asks(want, queue),
         NEW e \in Events
  PROVE  Asks(IF e \in DOMAIN ActionOf THEN Append(want, ActionOf[e]) ELSE want, Append(queue, e))
<1> DEFINE n == Len(want)
           m == Len(queue)
           longer == Append(queue, e)
<1>0. n \in Nat /\ m \in Nat /\ DOMAIN want = 1..n /\ DOMAIN queue = 1..m
  OBVIOUS
<1>1. PICK place \in [1..n -> 1..m] :
        /\ {place[k] : k \in 1..n} = {i \in 1..m : IsAction(queue[i])}
        /\ \A j, k \in 1..n : j < k => place[j] < place[k]
        /\ \A k \in 1..n : want[k] = ActionOf[queue[place[k]]]
  BY <1>0 DEF Asks
<1>2. /\ DOMAIN longer = 1..(m + 1) /\ longer[m + 1] = e
      /\ \A i \in 1..m : longer[i] = queue[i]
  OBVIOUS
<1> HIDE DEF n, m, longer
<1>3. CASE e \notin DOMAIN ActionOf
  <2>1. place \in [1..n -> 1..(m + 1)]
    BY <1>0, <1>1
  <2>2. {i \in 1..(m + 1) : IsAction(longer[i])} = {i \in 1..m : IsAction(queue[i])}
    BY <1>0, <1>2, <1>3 DEF IsAction
  <2>3. \A k \in 1..n : want[k] = ActionOf[longer[place[k]]]
    BY <1>1, <1>2
  <2>4. Asks(want, longer)
    <3>1. {place[k] : k \in 1..n} = {i \in 1..(m + 1) : IsAction(longer[i])}
      BY <1>1, <2>2
    <3>2. Placed(place, want, longer, 1..n, 1..(m + 1))
      BY <1>1, <2>3, <3>1 DEF Placed
    <3>3. QED
      BY <1>0, <1>2, <2>1, <3>2, AsksIs
  <2>5. QED
    BY <2>4, <1>3 DEF longer
<1>4. CASE e \in DOMAIN ActionOf
  <2> DEFINE more == Append(want, ActionOf[e])
             place2 == [k \in 1..(n + 1) |-> IF k = n + 1 THEN m + 1 ELSE place[k]]
  <2>1. DOMAIN more = 1..(n + 1) /\ more[n + 1] = ActionOf[e] /\ \A k \in 1..n : more[k] = want[k]
    BY <1>4, ActionsAre DEF n
  <2> HIDE DEF more
  <2>2. place2 \in [1..(n + 1) -> 1..(m + 1)]
    <3>1. ASSUME NEW k \in 1..(n + 1) PROVE place2[k] \in 1..(m + 1)
      <4>1. CASE k = n + 1
        BY <4>1, <1>0
      <4>2. CASE k # n + 1
        <5>1. k \in 1..n
          BY <4>2, <1>0
        <5>2. place[k] \in 1..m
          BY <5>1, <1>1
        <5>3. QED
          BY <4>2, <5>2, <1>0
      <4>3. QED
        BY <4>1, <4>2
    <3>2. QED
      BY <3>1
  <2>3. /\ place2[n + 1] = m + 1
        /\ \A k \in 1..n : place2[k] = place[k] /\ place[k] \in 1..m
    BY <1>0, <1>1
  <2>k. \A k \in 1..(n + 1) : k \in 1..n \/ k = n + 1
    BY <1>0
  <2>l. \A k \in 1..n : k \in 1..(n + 1)
    BY <1>0
  <2>i. \A i \in 1..(m + 1) : i \in 1..m \/ i = m + 1
    BY <1>0
  <2>j. \A i \in 1..m : i \in 1..(m + 1)
    BY <1>0
  <2>o. n + 1 \in 1..(n + 1) /\ m + 1 \in 1..(m + 1)
    BY <1>0
  <2> HIDE DEF place2
  <2>4. {place2[k] : k \in 1..(n + 1)} = {i \in 1..(m + 1) : IsAction(longer[i])}
    <3>1. ASSUME NEW k \in 1..(n + 1)
          PROVE  place2[k] \in 1..(m + 1) /\ IsAction(longer[place2[k]])
      <4>1. CASE k \in 1..n
        <5>1. place[k] \in {i \in 1..m : IsAction(queue[i])}
          BY <4>1, <1>1
        <5>2. QED
          BY <4>1, <5>1, <2>3, <1>2, <2>j
      <4>2. CASE k = n + 1
        BY <4>2, <2>3, <2>o, <1>2, <1>4 DEF IsAction
      <4>3. QED
        BY <2>k, <4>1, <4>2
    <3>2. ASSUME NEW i \in 1..(m + 1), IsAction(longer[i])
          PROVE  \E k \in 1..(n + 1) : place2[k] = i
      <4>1. CASE i \in 1..m
        <5>1. i \in {place[k] : k \in 1..n}
          BY <4>1, <3>2, <1>1, <1>2
        <5>2. PICK k \in 1..n : place[k] = i
          BY <5>1
        <5>3. QED
          BY <5>2, <2>3, <2>l
      <4>2. CASE i = m + 1
        BY <4>2, <2>3, <2>o
      <4>3. QED
        BY <2>i, <4>1, <4>2
    <3>3. QED
      BY <3>1, <3>2
  <2>5. ASSUME NEW j \in 1..(n + 1), NEW k \in 1..(n + 1), j < k PROVE place2[j] < place2[k]
    <3>1. j \in 1..n
      BY <1>0, <2>5
    <3>2. CASE k \in 1..n
      BY <2>5, <3>1, <3>2, <1>1, <2>3
    <3>3. CASE k = n + 1
      <4>1. place[j] \in 1..m
        BY <3>1, <2>3
      <4>2. place[j] < m + 1
        BY <4>1, <1>0
      <4>3. QED
        BY <4>2, <3>1, <3>3, <2>3
    <3>4. QED
      BY <2>k, <3>2, <3>3
  <2>6. ASSUME NEW k \in 1..(n + 1) PROVE more[k] = ActionOf[longer[place2[k]]]
    <3>1. CASE k \in 1..n
      BY <3>1, <2>1, <2>3, <1>1, <1>2
    <3>2. CASE k = n + 1
      BY <3>2, <2>1, <2>3, <1>2
    <3>3. QED
      BY <2>k, <3>1, <3>2
  <2>7. Asks(more, longer)
    <3>1. Placed(place2, more, longer, 1..(n + 1), 1..(m + 1))
      BY <2>4, <2>5, <2>6 DEF Placed
    <3>2. QED
      BY <2>1, <1>2, <2>2, <3>1, AsksIs
  <2>8. QED
    BY <2>7, <1>4 DEF more, longer
<1>5. QED
  BY <1>3, <1>4

\* Polling takes the first action that is asked for, and the events before it.
LEMMA AsksPolled ==
  ASSUME NEW want \in Seq(Requests), NEW queue \in Seq(Events), Asks(want, queue)
  PROVE  /\ Poll(queue).actions = SubSeq(want, 1, Len(Poll(queue).actions))
         /\ Len(Poll(queue).actions) <= Len(want) /\ Len(Poll(queue).actions) \in {0, 1}
         /\ Asks(SubSeq(want, Len(Poll(queue).actions) + 1, Len(want)), Poll(queue).events)
<1> DEFINE I == {i \in 1..Len(queue) : IsAction(queue[i])}
           f == SelectInSeq(queue, IsAction)
           n == Len(want)
           m == Len(queue)
<1>0. n \in Nat /\ m \in Nat /\ DOMAIN want = 1..n /\ DOMAIN queue = 1..m
  OBVIOUS
<1>1. f = IF I # {} THEN Min(I) ELSE 0
  BY DEF SelectInSeq
<1>2. I \in SUBSET Nat
  OBVIOUS
<1>3. (I = {} /\ f = 0) \/ (f \in I /\ \A i \in I : f <= i)
  BY <1>1, <1>2, FirstIsOne
<1>p. Poll(queue) = [events |-> IF f = 0 THEN <<>> ELSE SubSeq(queue, f + 1, Len(queue)),
                     actions |-> IF f = 0 THEN <<>> ELSE <<ActionOf[queue[f]]>>]
  BY Zenon DEF Poll
<1> HIDE DEF f
<1>4. PICK place \in [1..n -> 1..m] :
        /\ {place[k] : k \in 1..n} = I
        /\ \A j, k \in 1..n : j < k => place[j] < place[k]
        /\ \A k \in 1..n : want[k] = ActionOf[queue[place[k]]]
  BY <1>0 DEF Asks
<1>5. CASE I = {} /\ f = 0
  <2>1. n = 0
    <3>1. ASSUME n # 0 PROVE FALSE
      <4>1. 1 \in 1..n
        BY <1>0, <3>1
      <4>2. place[1] \in I
        BY <4>1, <1>4
      <4>3. QED
        BY <4>2, <1>5
    <3>2. QED
      BY <3>1
  <2>2. want = <<>>
    BY <2>1
  <2>3. Poll(queue).actions = <<>> /\ Poll(queue).events = <<>>
    BY <1>5, <1>p
  <2> DEFINE polled == Poll(queue).actions
  <2>4. polled = <<>>
    BY <2>3
  <2> HIDE DEF polled
  <2>5. /\ SubSeq(want, 1, Len(polled)) = <<>>
        /\ SubSeq(want, Len(polled) + 1, Len(want)) = <<>>
    BY <2>2, <2>4, NoneOfNothing
  <2>6. Len(polled) = 0 /\ Len(want) = 0
    BY <2>2, <2>4
  <2> DEFINE rest == SubSeq(want, Len(polled) + 1, Len(want))
             first == SubSeq(want, 1, Len(polled))
             kept == Poll(queue).events
  <2>7. rest = <<>> /\ first = <<>> /\ kept = <<>>
    BY <2>3, <2>5
  <2> HIDE DEF rest, first, kept
  <2>8. Asks(rest, kept)
    BY <2>7, AsksNothing
  <2>9. polled = first /\ Len(polled) <= Len(want) /\ Len(polled) \in {0, 1}
    BY <2>4, <2>6, <2>7
  <2>10. QED
    BY <2>8, <2>9 DEF polled, rest, first, kept
<1>6. CASE f \in I /\ \A i \in I : f <= i
  <2>0. f \in 1..m /\ f # 0
    BY <1>6
  <2>1. PICK j \in 1..n : place[j] = f
    BY <1>4, <1>6
  <2>2. 1 \in 1..n /\ place[1] \in I /\ place[1] \in 1..m
    BY <1>0, <1>4, <2>1
  <2>3. place[1] = f
    <3>1. f <= place[1]
      BY <1>6, <2>2
    <3>2. 1 < j => place[1] < f
      BY <1>4, <2>1, <2>2
    <3>3. j \in Int /\ 1 <= j /\ f \in Int /\ place[1] \in Int
      BY <2>0, <2>1, <2>2, <1>0
    <3>4. QED
      BY <3>1, <3>2, <3>3, <2>1
  <2>4. want[1] = ActionOf[queue[f]]
    BY <1>4, <2>2, <2>3
  <2>5. Poll(queue).actions = <<want[1]>> /\ Poll(queue).events = SubSeq(queue, f + 1, m)
    BY <1>p, <2>0, <2>4
  <2> DEFINE rest == SubSeq(want, 2, n)
             later == SubSeq(queue, f + 1, m)
             place2 == [k \in 1..(n - 1) |-> place[k + 1] - f]
  <2>n. n >= 1 /\ n - 1 \in Nat /\ m - f \in Nat
    BY <1>0, <2>0, <2>2
  <2>6. DOMAIN rest = 1..(n - 1) /\ \A k \in 1..(n - 1) : rest[k] = want[k + 1]
    BY <1>0, <2>n
  <2>7. DOMAIN later = 1..(m - f) /\ \A i \in 1..(m - f) : later[i] = queue[i + f]
    BY <1>0, <2>0, <2>n
  <2>8. <<want[1]>> = SubSeq(want, 1, 1)
    BY <1>0, <2>n
  <2> HIDE DEF rest, later, n, m
  <2>k. \A k \in 1..(n - 1) : k + 1 \in 1..n /\ 1 < k + 1
    BY <2>n, <1>0
  <2>9. ASSUME NEW k \in 1..(n - 1)
        PROVE  place[k + 1] \in 1..m /\ place[k + 1] - f \in 1..(m - f)
               /\ (place[k + 1] - f) + f = place[k + 1]
    <3>1. place[k + 1] \in 1..m /\ f < place[k + 1]
      BY <2>k, <1>4, <2>2, <2>3
    <3>2. QED
      BY <3>1, <2>0, <1>0
  <2>10. place2 \in [1..(n - 1) -> 1..(m - f)]
    BY <2>9
  <2>11. {place2[k] : k \in 1..(n - 1)} = {i \in 1..(m - f) : IsAction(later[i])}
    <3>1. ASSUME NEW k \in 1..(n - 1)
          PROVE  place2[k] \in 1..(m - f) /\ IsAction(later[place2[k]])
      <4>1. place[k + 1] \in I
        BY <2>k, <1>4
      <4>2. later[place2[k]] = queue[place[k + 1]]
        BY <2>7, <2>9
      <4>3. QED
        BY <4>1, <4>2, <2>9
    <3>2. ASSUME NEW i \in 1..(m - f), IsAction(later[i])
          PROVE  \E k \in 1..(n - 1) : place2[k] = i
      <4>1. i + f \in 1..m /\ i + f # f
        BY <2>0, <2>n, <1>0
      <4>2. i + f \in I
        BY <4>1, <3>2, <2>7 DEF m
      <4>3. PICK h \in 1..n : place[h] = i + f
        BY <4>2, <1>4
      <4>4. h # 1
        BY <4>1, <4>3, <2>3
      <4>5. h - 1 \in 1..(n - 1) /\ (h - 1) + 1 = h
        BY <4>4, <1>0
      <4>6. place2[h - 1] = (i + f) - f
        BY <4>3, <4>5
      <4>7. (i + f) - f = i
        BY <2>0, <1>0
      <4>8. QED
        BY <4>5, <4>6, <4>7
    <3>3. QED
      BY <3>1, <3>2
  <2>12. ASSUME NEW j2 \in 1..(n - 1), NEW k \in 1..(n - 1), j2 < k PROVE place2[j2] < place2[k]
    <3>1. j2 + 1 \in 1..n /\ k + 1 \in 1..n /\ j2 + 1 < k + 1
      BY <2>k, <2>12, <2>n
    <3>2. place[j2 + 1] < place[k + 1]
      BY <3>1, <1>4
    <3>3. place[j2 + 1] \in Int /\ place[k + 1] \in Int /\ f \in Int
      BY <2>9, <2>0, <1>0
    <3>4. QED
      BY <3>2, <3>3
  <2>13. ASSUME NEW k \in 1..(n - 1) PROVE rest[k] = ActionOf[later[place2[k]]]
    <3>1. later[place2[k]] = queue[place[k + 1]]
      BY <2>7, <2>9
    <3>2. QED
      BY <3>1, <2>6, <2>k, <1>4
  <2> HIDE DEF place2
  <2>14. Asks(rest, later)
    <3>1. Placed(place2, rest, later, 1..(n - 1), 1..(m - f))
      BY <2>11, <2>12, <2>13 DEF Placed
    <3>2. QED
      BY <2>6, <2>7, <2>10, <3>1, AsksIs
  <2>15. Len(Poll(queue).actions) = 1
    BY <2>5
  <2>16. QED
    BY <2>5, <2>8, <2>14, <2>15, <2>n DEF rest, later, n, m
<1>7. QED
  BY <1>3, <1>5, <1>6

-----------------------------------------------------------------------------
\* What waits in the queue, as it was asked for.
Waiting == SubSeq(asked, Len(actions) + 1, Len(asked))

LEMMA TakenFirst ==
  ASSUME NEW wants \in Seq(Requests), wants # <<>>
  PROVE  /\ Later(wants) \in Seq(Requests) /\ Len(Later(wants)) = Len(wants) - 1
         /\ Len(wants) >= 1
         /\ SubSeq(Later(wants), 1, Len(Later(wants))) = SubSeq(wants, 2, Len(wants))
         /\ SubSeq(Later(wants), 1, 0) = <<>>
BY DEF Later

\* An action that is handled is the first that was asked for.
LEMMA QueueHandled ==
  ASSUME TypeOK, QueueInv, phase = "acting", actions # <<>>,
         actions' = <<>> \/ actions' = Tail(actions), asked' = Later(asked), events' = events,
         phase' # "off"
  PROVE  QueueInv'
<1>1. /\ asked \in Seq(Requests) /\ actions \in Seq(Requests) /\ Len(actions) = 1
      /\ actions' = <<>> /\ Len(asked) >= 1 /\ asked # <<>>
  BY DEF TypeOK, QueueInv, ActionsInOrder, Alive, Requests
<1>2. Asks(SubSeq(asked, 2, Len(asked)), events)
  BY <1>1 DEF QueueInv, ActionsInOrder, Alive
<1>3. Asks(SubSeq(asked', 1, Len(asked')), events')
  BY <1>1, <1>2, TakenFirst
<1>4. Len(actions') = 0 /\ Len(asked') \in Nat /\ SubSeq(asked', 1, 0) = <<>>
  BY <1>1, TakenFirst
<1>5. ActionsInOrder'
  <2>1. 0 + 1 = 1
    OBVIOUS
  <2>2. QED
    BY <1>1, <1>3, <1>4, <2>1 DEF ActionsInOrder
<1>6. QED
  BY <1>1, <1>4, <1>5 DEF QueueInv

\* A step that polls finds no action left of the one before.
LEMMA QueuePolled ==
  ASSUME TypeOK, QueueInv, phase \in {"frame", "paused"}, phase' = "acting", asked' = asked,
         events' = Poll(events).events, actions' = Poll(events).actions
  PROVE  QueueInv'
<1>1. asked \in Seq(Requests) /\ events \in Seq(Events) /\ actions = <<>>
  BY DEF TypeOK, QueueInv, Requests
<1>2. Asks(asked, events)
  <2>1. Len(actions) + 1 = 1 /\ SubSeq(asked, 1, Len(asked)) = asked
    BY <1>1
  <2>2. QED
    BY <2>1 DEF QueueInv, ActionsInOrder, Alive
<1>3. /\ actions' = SubSeq(asked, 1, Len(actions'))
      /\ Len(actions') <= Len(asked) /\ Len(actions') \in {0, 1}
      /\ Asks(SubSeq(asked, Len(actions') + 1, Len(asked)), events')
  BY <1>1, <1>2, AsksPolled
<1>4. QED
  BY <1>3 DEF QueueInv, ActionsInOrder

LEMMA QueueStays ==
  ASSUME QueueInv, UNCHANGED <<events, actions, asked>>, phase # "off",
         phase' \in {"off", "frame", "paused", "booting"} => phase' # "off" /\ actions = <<>>
  PROVE  QueueInv'
BY DEF QueueInv, ActionsInOrder, Alive

LEMMA QueueEnds == ASSUME End PROVE QueueInv'
BY DEF End, QueueInv, ActionsInOrder, Alive

LEMMA StepQueue == TypeOK /\ QueueInv /\ [Next]_vars => QueueInv'
<1> SUFFICES ASSUME TypeOK, QueueInv, [Next]_vars PROVE QueueInv'
  OBVIOUS
<1>1. CASE Frame
  <2>1. CASE opts.oneframe
    BY <1>1, <2>1, QueueStays DEF Frame, QueueInv
  <2>2. CASE ~opts.oneframe
    BY <1>1, <2>2, QueuePolled DEF Frame
  <2>3. QED
    BY <2>1, <2>2
<1>2. CASE RenderPaused
  BY <1>2, QueuePolled DEF RenderPaused
<1>3. CASE ActionsDone
  BY <1>3, QueueStays DEF ActionsDone
<1>4. CASE Exit
  <2>1. CASE opts.oneframe
    BY <1>4, <2>1, QueueHandled DEF Exit
  <2>2. CASE ~opts.oneframe
    BY <1>4, <2>2, QueueEnds DEF Exit
  <2>3. QED
    BY <2>1, <2>2
<1>5. CASE Save
  BY <1>5, QueueHandled DEF Save, Handled
<1>6. CASE SaveField
  BY <1>6, QueueStays DEF SaveField
<1>7. CASE SaveFails
  BY <1>7, QueueEnds DEF SaveFails
<1>8. CASE SaveEnds
  BY <1>8, QueueStays DEF SaveEnds
<1>9. CASE Load
  <2>1. CASE End
    BY <2>1, QueueEnds
  <2>2. CASE Handled /\ events' = events /\ phase' \in {"acting", "loading"}
    BY <1>9, <2>2, QueueHandled DEF Load, Handled
  <2>3. QED
    BY <1>9, <2>1, <2>2 DEF Load
<1>10. CASE LoadField
  BY <1>10, QueueStays DEF LoadField, QueueInv
<1>11. CASE LoadFails
  BY <1>11, QueueEnds DEF LoadFails
<1>12. CASE LoadEnds
  BY <1>12, QueueStays DEF LoadEnds, QueueInv
<1>13. CASE Kill
  BY <1>13, QueueEnds DEF Kill
<1>14. ASSUME NEW e \in Events, Event(e) PROVE QueueInv'
  <2>1. /\ asked \in Seq(Requests) /\ events \in Seq(Events) /\ actions \in Seq(Requests)
        /\ phase # "off" /\ phase' = phase /\ actions' = actions /\ events' = Append(events, e)
        /\ asked' = IF e \in DOMAIN ActionOf THEN Append(asked, ActionOf[e]) ELSE asked
    BY <1>14 DEF Event, Alive, TypeOK, Requests
  <2>2. /\ Len(actions) <= Len(asked) /\ actions = SubSeq(asked, 1, Len(actions))
        /\ Asks(Waiting, events)
    BY <2>1 DEF QueueInv, ActionsInOrder, Alive, Waiting
  <2> DEFINE l == Len(actions)
             a == ActionOf[e]
  <2>3. l \in Nat /\ Waiting \in Seq(Requests)
    BY <2>1, <2>2 DEF Waiting
  <2>4. ASSUME e \in DOMAIN ActionOf
        PROVE  /\ SubSeq(asked', l + 1, Len(asked')) = Append(Waiting, a)
               /\ SubSeq(asked', 1, l) = SubSeq(asked, 1, l) /\ l <= Len(asked')
    <3>1. a \in Requests
      BY <2>4, ActionsAre
    <3> HIDE DEF a, l
    <3>2. asked' = Append(asked, a)
      BY <2>1, <2>4 DEF a
    <3>3. l <= Len(asked) /\ Len(asked) \in Nat /\ Len(asked') = Len(asked) + 1
      BY <2>1, <2>2, <3>1, <3>2 DEF l
    <3>4. SubSeq(asked', 1, l) = SubSeq(asked, 1, l)
      BY <2>1, <2>3, <3>1, <3>2, <3>3
    <3>5. SubSeq(asked', l + 1, Len(asked')) = Append(SubSeq(asked, l + 1, Len(asked)), a)
      <4>1. l \in 0..Len(asked)
        BY <2>3, <3>3
      <4>2. SubSeq(Append(asked, a), l + 1, Len(asked) + 1) = Append(SubSeq(asked, l + 1, Len(asked)), a)
        BY <2>1, <3>1, <4>1, RestAppended
      <4>3. QED
        BY <3>2, <3>3, <4>2
    <3>6. Waiting = SubSeq(asked, l + 1, Len(asked))
      BY DEF Waiting, l
    <3>7. l <= Len(asked')
      BY <3>3, <2>3
    <3>8. QED
      BY <3>4, <3>5, <3>6, <3>7
  <2>5. /\ SubSeq(asked', l + 1, Len(asked')) =
             (IF e \in DOMAIN ActionOf THEN Append(Waiting, a) ELSE Waiting)
        /\ SubSeq(asked', 1, l) = SubSeq(asked, 1, l) /\ l <= Len(asked')
    BY <2>1, <2>2, <2>4 DEF Waiting
  <2>6. Asks(SubSeq(asked', l + 1, Len(asked')), events')
    BY <2>1, <2>2, <2>3, <2>5, AsksMore
  <2>7. ActionsInOrder'
    BY <2>1, <2>2, <2>5, <2>6 DEF ActionsInOrder
  <2>8. QED
    BY <2>1, <2>7 DEF QueueInv
<1>15. ASSUME NEW input \in WithInput, NEW oneframe \in BOOLEAN, NEW savestate \in BOOLEAN,
              Start(input, oneframe, savestate)
       PROVE  QueueInv'
  <2>1. events' = <<>> /\ actions' = <<>> /\ asked' = <<>> /\ phase' \in {"frame", "booting"}
    BY <1>15 DEF Start, QueueInv
  <2>2. ActionsInOrder'
    <3>1. /\ SubSeq(asked', 1, Len(actions')) = <<>>
          /\ SubSeq(asked', Len(actions') + 1, Len(asked')) = <<>>
      BY <2>1, NoneOfNothing
    <3>2. Len(actions') <= Len(asked')
      BY <2>1
    <3>3. QED
      BY <2>1, <3>1, <3>2, AsksNothing DEF ActionsInOrder
  <2>3. QED
    BY <2>1, <2>2 DEF QueueInv
<1>16. CASE UNCHANGED vars
  BY <1>16 DEF vars, QueueInv, ActionsInOrder, Alive
<1>17. QED
  BY <1>1, <1>2, <1>3, <1>4, <1>5, <1>6, <1>7, <1>8, <1>9, <1>10, <1>11, <1>12, <1>13, <1>14,
     <1>15, <1>16 DEF Next, Process

\* ActionsInOrder: what the user asks for is done in the order of the events,
\* and nothing is forgotten: polling ends with the first action, and there is
\* at most one action at hand when the next poll comes (SdlManager::update,
\* Emulator::run).
THEOREM AskedInOrder == Spec => []ActionsInOrder
<1>1. Init => QueueInv
  BY DEF Init, QueueInv, ActionsInOrder, Alive
<1>2. QueueInv => ActionsInOrder
  BY DEF QueueInv
<1>3. QED
  BY <1>1, <1>2, StepQueue, EmulatorTypeCorrect, PTL DEF Spec
=============================================================================
