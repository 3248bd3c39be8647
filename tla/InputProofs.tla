---------------------------- MODULE InputProofs ----------------------------
(* What Input.tla promises, proved for any joypads, words and register size. *)
EXTENDS Input, TLAPS

\* Nothing has happened to the component while main sets it up.
SetupInv ==
  phase = "setup" =>
    /\ inp.rec = None /\ ~inp.whole /\ frame = None
    /\ \A p \in Attached : inp.pad[p].word = NoButtons

\* latched_this_frame tells the truth about the recorder in a frame that the
\* component has seen from its start.
LatchedInv == mode = "Recorded" /\ inp.whole /\ inp.latched => inp.recs >= 1

IInv == /\ TypeOK
        /\ SetupInv
        /\ ReadsAreRecorded
        /\ LatchedInv
        /\ RecordedUnlessHeld
        /\ ReplayIgnoresUser

-----------------------------------------------------------------------------
(* Lemmas about a store to $4016.                                          *)

LEMMA ShiftedType ==
  ASSUME NEW r \in Register, NEW n \in Nat
  PROVE  Shifted(r, n) \in Register /\ Shifted(r, n).word = r.word
BY InputAssumption DEF Register, Shifted

LEMMA StoreType ==
  ASSUME TypeOK, NEW s \in Latches, NEW new \in BOOLEAN, NEW ok \in BOOLEAN
  PROVE  Store(s, new, ok) \in Latches
<1> DEFINE pad == SetLatch(s.pad, new)
<1>1. pad \in [Attached -> Register]
  BY InputAssumption DEF TypeOK, Latches, SetLatch, Register
<1>2. Recording(pad, ok) \in [Attached -> Words] \cup {None, Hole}
  BY <1>1 DEF Recording, Register
<1>3. Inc2(s.recs) \in 0..2
  BY DEF Latches, Inc2
<1>4. QED
  BY <1>1, <1>2, <1>3 DEF Store, Latches

\* What a store keeps of the invariant, for any latches s.
Covered(s) ==
  \/ s.rec = Hole
  \/ s.rec = None /\ \A p \in Attached : s.pad[p].word = NoButtons
  \/ s.rec = [p \in Attached |-> s.pad[p].word]

LEMMA StoreKeeps ==
  ASSUME TypeOK, NEW s \in Latches, NEW new \in BOOLEAN, NEW ok \in BOOLEAN
  PROVE  LET t == Store(s, new, ok)
         IN  /\ mode = "Recorded" /\ Covered(s) => Covered(t)
             /\ mode = "Recorded" /\ (s.latched => s.recs >= 1)
                  => (t.latched => t.recs >= 1)
             /\ t.recs >= s.recs
             /\ s.latched => t.latched
             /\ new /\ ~s.latch => t.latched
             /\ t.whole = s.whole /\ t.latch = new
             /\ mode = "Replayed" => t.pad = s.pad
             /\ mode # "Recorded" => t.rec = s.rec
<1> DEFINE t == Store(s, new, ok)
<1>1. CASE s.latch = new
  BY <1>1 DEF Store, Latches
<1>2. CASE s.latch # new
  <2> DEFINE pad == SetLatch(s.pad, new)
  <2>1. /\ t.pad = pad /\ t.latch = new /\ t.whole = s.whole
        /\ t.latched = (s.latched \/ new)
        /\ t.rec = (IF new /\ mode = "Recorded" THEN Recording(pad, ok) ELSE s.rec)
        /\ t.recs = (IF new /\ mode = "Recorded" THEN Inc2(s.recs) ELSE s.recs)
    BY <1>2 DEF Store, Latches
  <2>2. Inc2(s.recs) >= 1 /\ Inc2(s.recs) >= s.recs /\ s.recs >= s.recs
    BY DEF Inc2, Latches
  <2>3. mode = "Recorded" /\ Covered(s) => Covered(t)
    <3>1. CASE new
      BY <2>1, <3>1 DEF Covered, Recording
    <3>2. CASE ~new
      BY <2>1, <3>2 DEF Covered, SetLatch
    <3>3. QED BY <3>1, <3>2
  <2>4. mode = "Replayed" => t.pad = s.pad
    BY <2>1 DEF SetLatch
  <2>5. QED
    BY <2>1, <2>2, <2>3, <2>4
<1>3. QED BY <1>1, <1>2

\* The same for the two stores of a pulse, and for the latching of new_frame.
LEMMA PulseKeeps ==
  ASSUME TypeOK, NEW s \in Latches, NEW ok \in BOOLEAN
  PROVE  LET t == Pulse(s, ok)
         IN  /\ t \in Latches
             /\ mode = "Recorded" /\ Covered(s) => Covered(t)
             /\ mode = "Recorded" /\ (s.latched => s.recs >= 1)
                  => (t.latched => t.recs >= 1)
             /\ s.latched => t.latched
             /\ ~s.latch => t.latched
             /\ t.whole = s.whole
             /\ mode = "Replayed" => t.pad = s.pad
<1> DEFINE u == Store(s, TRUE, ok)
<1>1. u \in Latches
  BY StoreType
<1>2. Store(u, FALSE, ok) \in Latches
  BY <1>1, StoreType
<1> DEFINE t == Store(u, FALSE, ok)
<1>3. Pulse(s, ok) = t
  BY DEF Pulse
<1>4. /\ mode = "Recorded" /\ Covered(s) => Covered(u)
      /\ mode = "Recorded" /\ (s.latched => s.recs >= 1)
           => (u.latched => u.recs >= 1)
      /\ s.latched => u.latched
      /\ ~s.latch => u.latched
      /\ u.whole = s.whole
      /\ mode = "Replayed" => u.pad = s.pad
  BY StoreKeeps
<1> HIDE DEF u
<1>5. /\ mode = "Recorded" /\ Covered(u) => Covered(t)
      /\ mode = "Recorded" /\ (u.latched => u.recs >= 1)
           => (t.latched => t.recs >= 1)
      /\ u.latched => t.latched
      /\ t.whole = u.whole
      /\ mode = "Replayed" => t.pad = u.pad
  BY <1>1, StoreKeeps
<1> HIDE DEF t
<1>6. QED
  BY <1>2, <1>3, <1>4, <1>5 DEF t

LEMMA LatchIfNeededKeeps ==
  ASSUME TypeOK, NEW s \in Latches, NEW ok \in BOOLEAN
  PROVE  LET t == LatchIfNeeded(s, ok)
         IN  /\ t \in Latches
             /\ mode = "Recorded" /\ Covered(s) => Covered(t)
             /\ mode = "Recorded" /\ (s.latched => s.recs >= 1)
                  => (t.latched => t.recs >= 1)
             /\ s.latched \/ ~s.latch => t.latched
             /\ t.whole = s.whole
             /\ mode = "Replayed" => t.pad = s.pad
BY PulseKeeps DEF LatchIfNeeded

-----------------------------------------------------------------------------
(* The invariant is inductive.                                             *)

LEMMA InitInv == Init => IInv
<1> SUFFICES ASSUME Init PROVE IInv
  OBVIOUS
<1>a. Cleared \in Register
  BY InputAssumption DEF Cleared, Register
<1>b. inp \in Latches
  BY <1>a DEF Init, Latches
<1>1. TypeOK
  BY <1>a, <1>b DEF Init, TypeOK, Phases, Modes
<1>2. QED
  BY <1>1 DEF Init, IInv, SetupInv, ReadsAreRecorded, LatchedInv,
              RecordedUnlessHeld, ReplayIgnoresUser, Cleared

LEMMA StepInv == IInv /\ [Next]_vars => IInv'
<1> SUFFICES ASSUME IInv, [Next]_vars
             PROVE  IInv'
  OBVIOUS
<1>t. TypeOK /\ inp \in Latches
  BY DEF IInv, TypeOK
<1>c. mode = "Recorded" => Covered(inp)
  BY DEF IInv, ReadsAreRecorded, Covered
<1>n. None # Hole
  BY InputAssumption
<1>1. CASE StartRecording
  BY <1>1 DEF StartRecording, IInv, TypeOK, Modes, SetupInv, ReadsAreRecorded,
              LatchedInv, RecordedUnlessHeld, ReplayIgnoresUser
<1>2. CASE StartReplay
  BY <1>2 DEF StartReplay, IInv, TypeOK, Modes, SetupInv, ReadsAreRecorded,
              LatchedInv, RecordedUnlessHeld, ReplayIgnoresUser
<1>3. CASE Run
  BY <1>3 DEF Run, IInv, TypeOK, Phases, SetupInv, ReadsAreRecorded,
              LatchedInv, RecordedUnlessHeld, ReplayIgnoresUser
<1>r. ASSUME NEW latch \in BOOLEAN, NEW latched \in BOOLEAN,
             NEW enabled \in BOOLEAN, NEW d \in SavedRegisters,
             NEW ph \in {"visible", "vblank"},
             Restored(latch, latched, d, enabled), phase' = ph,
             UNCHANGED <<mode, host, frame>>
      PROVE  IInv'
  <2>1. /\ inp' = [inp EXCEPT !.latch = latch, !.latched = latched, !.whole = FALSE]
        /\ auto_read_data' = d /\ auto_enabled' = enabled
    BY <1>r DEF Restored
  <2>2. inp' \in Latches /\ ~inp'.whole /\ inp'.rec = inp.rec /\ inp'.pad = inp.pad
    BY <2>1, <1>t DEF Latches
  <2>3. TypeOK'
    BY <1>r, <2>1, <2>2, <1>t DEF TypeOK, Phases, SavedRegisters
  <2>4. QED
    BY <1>r, <2>2, <2>3 DEF IInv, SetupInv, ReadsAreRecorded, LatchedInv,
                            RecordedUnlessHeld, ReplayIgnoresUser
<1>4. CASE RestoreAtStart
  BY <1>4, <1>r DEF RestoreAtStart
<1>5. CASE LoadState
  BY <1>5, <1>r DEF LoadState
<1>6. ASSUME NEW p \in Attached, NEW w \in Words, Press(p, w)
      PROVE  IInv'
  <2>1. TypeOK'
    BY <1>6, <1>t DEF Press, TypeOK
  <2>2. QED
    BY <1>6, <2>1 DEF Press, IInv, SetupInv, ReadsAreRecorded, LatchedInv,
                      RecordedUnlessHeld, ReplayIgnoresUser
<1>7. ASSUME NEW new \in BOOLEAN, NEW ok \in BOOLEAN, StoreLatch(new, ok)
      PROVE  IInv'
  <2>1. /\ phase # "setup" /\ inp' = Store(inp, new, ok)
        /\ UNCHANGED <<phase, mode, host, auto_read_data, auto_enabled, frame>>
    BY <1>7 DEF StoreLatch
  <2>2. inp' \in Latches
    BY <1>t, <2>1, StoreType
  <2>3. TypeOK'
    BY <2>1, <2>2, <1>t DEF TypeOK
  <2>4. /\ mode = "Recorded" => Covered(inp')
        /\ LatchedInv'
        /\ ReplayIgnoresUser'
    BY <1>t, <1>c, <2>1, StoreKeeps DEF IInv, LatchedInv, ReplayIgnoresUser
  <2>5. QED
    BY <2>1, <2>3, <2>4 DEF IInv, SetupInv, ReadsAreRecorded, Covered,
                            RecordedUnlessHeld
<1>8. ASSUME NEW p \in Ports, ReadPort(p)
      PROVE  IInv'
  <2>1. /\ phase # "setup" /\ p \in Attached
        /\ inp' = [inp EXCEPT !.pad[p] = Shifted(inp.pad[p], 1)]
        /\ UNCHANGED <<phase, mode, host, auto_read_data, auto_enabled, frame>>
    BY <1>8 DEF ReadPort
  <2>2. /\ Shifted(inp.pad[p], 1) \in Register
        /\ Shifted(inp.pad[p], 1).word = inp.pad[p].word
    BY <1>t, <2>1, ShiftedType DEF Latches
  <2>3. inp' \in Latches
    BY <1>t, <2>1, <2>2 DEF Latches
  <2>4. /\ \A q \in Attached : inp'.pad[q].word = inp.pad[q].word
        /\ inp'.rec = inp.rec /\ inp'.recs = inp.recs
        /\ inp'.latched = inp.latched /\ inp'.whole = inp.whole
    BY <1>t, <2>1, <2>2 DEF Latches
  <2>5. TypeOK'
    BY <2>1, <2>3, <1>t DEF TypeOK
  <2>6. QED
    BY <2>1, <2>4, <2>5 DEF IInv, SetupInv, ReadsAreRecorded, LatchedInv,
                            RecordedUnlessHeld, ReplayIgnoresUser
<1>9. ASSUME NEW enable \in BOOLEAN, StoreNmitimen(enable)
      PROVE  IInv'
  <2>1. TypeOK'
    BY <1>9, <1>t DEF StoreNmitimen, TypeOK
  <2>2. QED
    BY <1>9, <2>1 DEF StoreNmitimen, IInv, SetupInv, ReadsAreRecorded,
                      LatchedInv, RecordedUnlessHeld, ReplayIgnoresUser
<1>10. ASSUME NEW ok \in BOOLEAN, NewFrame(ok)
       PROVE  IInv'
  <2> DEFINE s == LatchIfNeeded(inp, ok)
  <2>1. /\ phase = "visible" /\ phase' = "vblank"
        /\ frame' = IF s.whole THEN [recs |-> s.recs, held |-> inp.latch] ELSE None
        /\ inp' = [s EXCEPT !.latched = FALSE, !.recs = 0, !.whole = TRUE]
        /\ UNCHANGED <<mode, host, auto_read_data, auto_enabled>>
    BY <1>10 DEF NewFrame
  <2>2. /\ s \in Latches
        /\ mode = "Recorded" => Covered(s)
        /\ mode = "Recorded" /\ (inp.latched => inp.recs >= 1)
             => (s.latched => s.recs >= 1)
        /\ inp.latched \/ ~inp.latch => s.latched
        /\ s.whole = inp.whole
        /\ mode = "Replayed" => s.pad = inp.pad
    BY <1>t, <1>c, LatchIfNeededKeeps
  <2> HIDE DEF s
  <2>3. /\ inp' \in Latches /\ ~inp'.latched
        /\ inp'.rec = s.rec /\ inp'.pad = s.pad
    <3>1. s \in Latches /\ inp' = [s EXCEPT !.latched = FALSE, !.recs = 0, !.whole = TRUE]
      BY <2>1, <2>2
    <3>2. inp'.latched = FALSE /\ inp'.rec = s.rec /\ inp'.pad = s.pad
      BY <3>1 DEF Latches
    <3>3. inp' = [latch |-> s.latch, latched |-> FALSE, pad |-> s.pad,
                  rec |-> s.rec, recs |-> 0, whole |-> TRUE]
      BY <3>1 DEF Latches
    <3>4. inp' \in Latches
      <4>1. /\ s.latch \in BOOLEAN /\ s.pad \in [Attached -> Register]
            /\ s.rec \in [Attached -> Words] \cup {None, Hole}
        BY <3>1 DEF Latches
      <4>2. QED
        BY <3>3, <4>1 DEF Latches
    <3>5. QED
      BY <3>2, <3>4
  <2>4. frame' \in FrameInfo \cup {None}
    BY <2>1, <2>2, <1>t DEF FrameInfo, Latches
  <2>5. TypeOK'
    BY <2>1, <2>3, <2>4, <1>t DEF TypeOK, Phases
  <2>6. RecordedUnlessHeld'
    <3> SUFFICES ASSUME mode = "Recorded", s.whole
                 PROVE  s.recs >= 1 \/ inp.latch
      BY <2>1 DEF RecordedUnlessHeld
    <3>1. QED
      BY <2>2 DEF IInv, LatchedInv
  <2>7. ReadsAreRecorded'
    BY <2>1, <2>2, <2>3 DEF ReadsAreRecorded, Covered
  <2>8. ReplayIgnoresUser'
    BY <2>1, <2>2, <2>3 DEF IInv, ReplayIgnoresUser
  <2>9. QED
    BY <2>1, <2>3, <2>5, <2>6, <2>7, <2>8 DEF IInv, SetupInv, LatchedInv
<1>11. ASSUME NEW ok \in BOOLEAN, AutoRead(ok)
       PROVE  IInv'
  <2> DEFINE s == Pulse(inp, ok)
  <2>1. /\ phase = "vblank" /\ phase' = "visible"
        /\ auto_read_data' =
             [p \in Ports |-> IF p \in Attached THEN s.pad[p] ELSE Cleared]
        /\ inp' = [s EXCEPT !.pad = [p \in Attached |-> Shifted(s.pad[p], Bits)]]
        /\ UNCHANGED <<mode, host, auto_enabled, frame>>
    BY <1>11 DEF AutoRead
  <2>2. /\ s \in Latches
        /\ mode = "Recorded" => Covered(s)
        /\ mode = "Recorded" /\ (inp.latched => inp.recs >= 1)
             => (s.latched => s.recs >= 1)
        /\ s.whole = inp.whole
        /\ mode = "Replayed" => s.pad = inp.pad
    BY <1>t, <1>c, PulseKeeps
  <2> HIDE DEF s
  <2>3. \A p \in Attached : /\ Shifted(s.pad[p], Bits) \in Register
                            /\ Shifted(s.pad[p], Bits).word = s.pad[p].word
    BY <2>2, ShiftedType, InputAssumption DEF Latches
  <2>4. /\ inp' \in Latches
        /\ \A p \in Attached : inp'.pad[p].word = s.pad[p].word
        /\ inp'.rec = s.rec /\ inp'.recs = s.recs
        /\ inp'.latched = s.latched /\ inp'.whole = s.whole
    BY <2>1, <2>2, <2>3 DEF Latches
  <2>5. auto_read_data' \in [Ports -> Register]
    BY <2>1, <2>2, InputAssumption DEF Latches, Cleared, Register
  <2>6. TypeOK'
    BY <2>1, <2>4, <2>5, <1>t DEF TypeOK, Phases
  <2>7. ReadsAreRecorded' /\ LatchedInv' /\ ReplayIgnoresUser'
    BY <2>1, <2>2, <2>4
    DEF IInv, ReadsAreRecorded, LatchedInv, ReplayIgnoresUser, Covered
  <2>8. QED
    BY <2>1, <2>6, <2>7 DEF IInv, SetupInv, RecordedUnlessHeld
<1>12. CASE SkipAutoRead
  BY <1>12 DEF SkipAutoRead, IInv, TypeOK, Phases, SetupInv, ReadsAreRecorded,
               LatchedInv, RecordedUnlessHeld, ReplayIgnoresUser
<1>13. CASE UNCHANGED vars
  BY <1>13 DEF vars, IInv, TypeOK, SetupInv, ReadsAreRecorded, LatchedInv,
               RecordedUnlessHeld, ReplayIgnoresUser
<1>14. QED
  BY <1>1, <1>2, <1>3, <1>4, <1>5, <1>6, <1>7, <1>8, <1>9, <1>10, <1>11,
     <1>12, <1>13 DEF Next, Program, FrameLoop

-----------------------------------------------------------------------------
THEOREM Invariance == Spec => []IInv
BY InitInv, StepInv, PTL DEF Spec

\* Every variable keeps its type.
THEOREM TypeCorrect == Spec => []TypeOK
BY Invariance, PTL DEF IInv

\* Whatever a program reads from a joypad while recording is in the recording.
THEOREM RecordingIsFaithful == Spec => []ReadsAreRecorded
BY Invariance, PTL DEF IInv

\* Every complete frame is recorded, unless the program held the latch.
THEOREM RecordingIsComplete == Spec => []RecordedUnlessHeld
BY Invariance, PTL DEF IInv

\* A replay keeps the user's buttons away from the program.
THEOREM ReplayIsIsolated == Spec => []ReplayIgnoresUser
BY Invariance, PTL DEF IInv

-----------------------------------------------------------------------------
(* The auto read.                                                          *)

\* A pulse that finds the latch low latches every joypad and records it.
LEMMA PulseLatches ==
  ASSUME TypeOK, ~inp.latch, mode # "Replayed", NEW ok \in BOOLEAN
  PROVE  /\ Pulse(inp, ok).pad = [p \in Attached |-> [word |-> host[p], pos |-> 0]]
         /\ mode = "Recorded" /\ ok => Pulse(inp, ok).rec = host
<1> DEFINE pad == [p \in Attached |-> [word |-> host[p], pos |-> 0]]
           u == Store(inp, TRUE, ok)
           t == Store(u, FALSE, ok)
<1>1. inp \in Latches /\ inp.latch = FALSE
  BY DEF TypeOK, Latches
<1>2. SetLatch(inp.pad, TRUE) = pad
  BY DEF SetLatch
<1>3. Recording(pad, ok) = IF ok THEN host ELSE Hole
  BY DEF Recording, TypeOK
<1> HIDE DEF pad
<1>4. /\ u \in Latches /\ u.latch = TRUE /\ u.pad = pad
      /\ mode = "Recorded" => u.rec = Recording(pad, ok)
  <2>1. u \in Latches
    BY <1>1, StoreType
  <2>2. u = [inp EXCEPT !.latched = @ \/ TRUE,
                        !.pad     = pad,
                        !.rec     = IF mode = "Recorded" THEN Recording(pad, ok) ELSE @,
                        !.recs    = IF mode = "Recorded" THEN Inc2(@) ELSE @,
                        !.latch   = TRUE]
    BY <1>1, <1>2 DEF Store
  <2>3. QED
    BY <1>1, <2>1, <2>2 DEF Latches
<1> HIDE DEF u
<1>5. /\ t.pad = SetLatch(u.pad, FALSE)
      /\ t.rec = u.rec
  BY <1>4 DEF Store, Latches
<1>6. Pulse(inp, ok) = t /\ SetLatch(u.pad, FALSE) = u.pad
  BY DEF Pulse, SetLatch, u
<1>7. QED
  BY <1>3, <1>4, <1>5, <1>6 DEF pad

\* An auto read that finds the latch low gives the program the buttons of this
\* moment, whole, whatever it had read serially before, and the recorder sees
\* the same buttons (Input::perform_auto_read).
THEOREM AutoReadsAreFresh == Spec => AutoReadIsFresh
<1>1. ASSUME TypeOK, NEW ok \in BOOLEAN, AutoRead(ok), ~inp.latch,
             mode # "Replayed"
      PROVE  /\ \A p \in Attached : auto_read_data'[p] = [word |-> host[p], pos |-> 0]
             /\ mode = "Recorded" /\ ok => inp'.rec = host
  <2> DEFINE q == Pulse(inp, ok)
  <2>1. /\ q.pad = [p \in Attached |-> [word |-> host[p], pos |-> 0]]
        /\ mode = "Recorded" /\ ok => q.rec = host
    BY <1>1, PulseLatches
  <2>2. q \in Latches
    BY <1>1, PulseKeeps DEF TypeOK
  <2> HIDE DEF q
  <2>3. /\ auto_read_data' =
             [p \in Ports |-> IF p \in Attached THEN q.pad[p] ELSE Cleared]
        /\ inp' = [q EXCEPT !.pad = [p \in Attached |-> Shifted(@[p], Bits)]]
    BY <1>1 DEF AutoRead, q
  <2>4. inp'.rec = q.rec
    BY <2>2, <2>3 DEF Latches
  <2>5. QED
    BY <2>1, <2>3, <2>4, InputAssumption
<1>2. TypeOK /\ [Next]_vars =>
        [\A ok \in BOOLEAN :
           AutoRead(ok) /\ ~inp.latch /\ mode # "Replayed" =>
             /\ \A p \in Attached : auto_read_data'[p] = [word |-> host[p], pos |-> 0]
             /\ mode = "Recorded" /\ ok => inp'.rec = host]_vars
  BY <1>1
<1>3. QED
  BY <1>2, TypeCorrect, PTL DEF Spec, AutoReadIsFresh
=============================================================================
