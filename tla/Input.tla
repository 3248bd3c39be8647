------------------------------- MODULE Input -------------------------------
(***************************************************************************)
(* Controller ports, the latch line, auto-joypad read, and the recording   *)
(* and replaying of input: breeze_core/input and breeze_core/record.       *)
(*                                                                         *)
(* A joypad is a shift register.  Its content is the word the backend gave *)
(* when the joypad was last latched, and the number of bits already        *)
(* shifted out of it; past the last bit every read gives a 1, so the count *)
(* stops at Bits.                                                          *)
(*                                                                         *)
(* Three parties act on the component: the emulated program (any register  *)
(* access, at any time), the frame loop (new_frame at dot (225,0), the     *)
(* auto read at (225,50), once per frame and in that order), and the user, *)
(* who presses buttons and makes and loads save states.                    *)
(***************************************************************************)
EXTENDS Naturals

CONSTANTS
  Ports,      \* the controller ports of the console
  Attached,   \* the ports a joypad is plugged into
  Words,      \* the button words a joypad can report
  NoButtons,  \* the word of a joypad that was never latched
  Bits,       \* bits in the shift register of a joypad (16 in the code)
  None,       \* "no frame was recorded yet"
  Hole        \* a frame the recorder failed to write

ASSUME InputAssumption ==
  /\ Attached \subseteq Ports
  /\ NoButtons \in Words
  /\ Bits \in Nat \ {0}
  /\ None # Hole
  /\ {None, Hole} \cap [Attached -> Words] = {}

VARIABLES
  phase,     \* where the frame loop is: set up by main, or before (225,0) or (225,50)
  mode,      \* InputMode
  host,      \* the buttons the user holds, as the backend would report them
  inp,       \* latch, latched_this_frame, the joypads, and what the recorder saw
  auto_read_data,
  auto_enabled,  \* bit 0 of NMITIMEN
  frame      \* history: how the last complete frame was recorded

vars == <<phase, mode, host, inp, auto_read_data, auto_enabled, frame>>

Modes  == {"Normal", "Recorded", "Replayed"}
Phases == {"setup", "visible", "vblank"}

Register == [word : Words, pos : 0..Bits]
Cleared  == [word |-> NoButtons, pos |-> 0]

(***************************************************************************)
(* rec is the last frame handed to the recorder and recs how often it was  *)
(* called since the last new_frame (0, 1 or more).  whole is FALSE in the  *)
(* frame the emulation starts in, which has no beginning.                  *)
(***************************************************************************)
Latches == [latch   : BOOLEAN,
            latched : BOOLEAN,
            pad     : [Attached -> Register],
            rec     : [Attached -> Words] \cup {None, Hole},
            recs    : 0..2,
            whole   : BOOLEAN]

FrameInfo == [recs : 0..2, held : BOOLEAN]

TypeOK ==
  /\ phase \in Phases
  /\ mode \in Modes
  /\ host \in [Attached -> Words]
  /\ inp \in Latches
  /\ auto_read_data \in [Ports -> Register]
  /\ auto_enabled \in BOOLEAN
  /\ frame \in FrameInfo \cup {None}

-----------------------------------------------------------------------------
(* Register accesses, as functions of the component's state.               *)

\* JoypadState::read_bit, called n times.
Shifted(r, n) == [r EXCEPT !.pos = IF @ + n < Bits THEN @ + n ELSE Bits]

\* Mutant: a replay does not keep the user's buttons from the joypads.
SetLatchInReplay(pad, new) ==
  IF new THEN [p \in Attached |-> [word |-> host[p], pos |-> 0]] ELSE pad

\* Peripheral::set_latch on every attached joypad; only a rising latch does
\* anything, and nothing reaches the joypads while replaying.
SetLatch(pad, new) ==
  IF new /\ mode # "Replayed"
    THEN [p \in Attached |-> [word |-> host[p], pos |-> 0]]
    ELSE pad

\* Recorder::record_frame: what a recorder keeps of the joypads, if it can.
Recording(pad, ok) == IF ok THEN [p \in Attached |-> pad[p].word] ELSE Hole

Inc2(n) == IF n < 2 THEN n + 1 ELSE 2

\* Mutant: the frame is recorded before the joypads are latched.
StoreRecordsFirst(s, new, ok) ==
  IF s.latch = new THEN s
  ELSE LET records == new /\ mode = "Recorded"
       IN  [s EXCEPT !.latched = @ \/ new,
                     !.pad     = SetLatch(s.pad, new),
                     !.rec     = IF records THEN Recording(s.pad, ok) ELSE @,
                     !.recs    = IF records THEN Inc2(@) ELSE @,
                     !.latch   = new]

\* Mutant: releasing the latch counts as latching.
StoreAnyEdge(s, new, ok) ==
  IF s.latch = new THEN s
  ELSE LET pad == SetLatch(s.pad, new)
           records == new /\ mode = "Recorded"
       IN  [s EXCEPT !.latched = TRUE,
                     !.pad     = pad,
                     !.rec     = IF records THEN Recording(pad, ok) ELSE @,
                     !.recs    = IF records THEN Inc2(@) ELSE @,
                     !.latch   = new]

\* A store to $4016.  A store that does not change the latch does nothing.
Store(s, new, ok) ==
  IF s.latch = new THEN s
  ELSE LET pad == SetLatch(s.pad, new)
           records == new /\ mode = "Recorded"
       IN  [s EXCEPT !.latched = @ \/ new,
                     !.pad     = pad,
                     !.rec     = IF records THEN Recording(pad, ok) ELSE @,
                     !.recs    = IF records THEN Inc2(@) ELSE @,
                     !.latch   = new]

Pulse(s, ok) == Store(Store(s, TRUE, ok), FALSE, ok)

\* A new_frame that the component performs: latch if the program did not.
LatchIfNeeded(s, ok) == IF s.latched THEN s ELSE Pulse(s, ok)

-----------------------------------------------------------------------------
Init ==
  /\ phase = "setup"
  /\ mode = "Normal"
  /\ host \in [Attached -> Words]
  /\ inp = [latch |-> FALSE, latched |-> FALSE,
            pad |-> [p \in Attached |-> Cleared],
            rec |-> None, recs |-> 0, whole |-> FALSE]
  /\ auto_read_data = [p \in Ports |-> Cleared]
  /\ auto_enabled = FALSE
  /\ frame = None

(* What main does before it runs the emulator. *)

StartRecording ==
  /\ phase = "setup" /\ mode = "Normal"
  /\ mode' = "Recorded"
  /\ UNCHANGED <<phase, host, inp, auto_read_data, auto_enabled, frame>>

StartReplay ==
  /\ phase = "setup" /\ mode = "Normal"
  /\ mode' = "Replayed"
  /\ UNCHANGED <<phase, host, inp, auto_read_data, auto_enabled, frame>>

Run ==
  /\ phase = "setup"
  /\ phase' = "visible"
  /\ UNCHANGED <<mode, host, inp, auto_read_data, auto_enabled, frame>>

(***************************************************************************)
(* Restoring a save state puts back the latch, the flag and the auto-read  *)
(* registers, not the joypads and not the mode.  The file may come from an *)
(* earlier session: any values a run can have saved.                       *)
(***************************************************************************)
Restored(latch, latched, data, enabled) ==
  /\ inp' = [inp EXCEPT !.latch = latch, !.latched = latched, !.whole = FALSE]
  /\ auto_read_data' = data
  /\ auto_enabled' = enabled

SavedRegisters ==
  {d \in [Ports -> Register] : \A p \in Ports \ Attached : d[p] = Cleared}

\* main --savestate: after start_recording and start_replay, without a check.
RestoreAtStart ==
  /\ phase = "setup"
  /\ \E latch, latched, enabled \in BOOLEAN, d \in SavedRegisters,
        ph \in {"visible", "vblank"} :
       Restored(latch, latched, d, enabled) /\ phase' = ph
  /\ UNCHANGED <<mode, host, frame>>

\* BackendAction::LoadState: refused unless the mode is Normal.
LoadState ==
  /\ phase # "setup" /\ mode = "Normal"
  /\ \E latch, latched, enabled \in BOOLEAN, d \in SavedRegisters,
        ph \in {"visible", "vblank"} :
       Restored(latch, latched, d, enabled) /\ phase' = ph
  /\ UNCHANGED <<mode, host, frame>>

(* The user. *)

Press(p, w) ==
  /\ host' = [host EXCEPT ![p] = w]
  /\ UNCHANGED <<phase, mode, inp, auto_read_data, auto_enabled, frame>>

(* The emulated program. *)

StoreLatch(new, ok) ==
  /\ phase # "setup"
  /\ inp' = Store(inp, new, ok)
  /\ UNCHANGED <<phase, mode, host, auto_read_data, auto_enabled, frame>>

\* A load from $4016 or $4017; a port without a joypad reads 0s.
ReadPort(p) ==
  /\ phase # "setup" /\ p \in Attached
  /\ inp' = [inp EXCEPT !.pad[p] = Shifted(@, 1)]
  /\ UNCHANGED <<phase, mode, host, auto_read_data, auto_enabled, frame>>

StoreNmitimen(enable) ==
  /\ phase # "setup"
  /\ auto_enabled' = enable
  /\ UNCHANGED <<phase, mode, host, inp, auto_read_data, frame>>

(* The frame loop. *)

\* Mutant: latched_this_frame is not reset.
NewFrameKeepsFlag(ok) ==
  /\ phase = "visible"
  /\ phase' = "vblank"
  /\ LET s == LatchIfNeeded(inp, ok)
     IN  /\ frame' = IF s.whole THEN [recs |-> s.recs, held |-> inp.latch] ELSE None
         /\ inp' = [s EXCEPT !.recs = 0, !.whole = TRUE]
  /\ UNCHANGED <<mode, host, auto_read_data, auto_enabled>>

NewFrame(ok) ==
  /\ phase = "visible"
  /\ phase' = "vblank"
  /\ LET s == LatchIfNeeded(inp, ok)
     IN  /\ frame' = IF s.whole THEN [recs |-> s.recs, held |-> inp.latch] ELSE None
         /\ inp' = [s EXCEPT !.latched = FALSE, !.recs = 0, !.whole = TRUE]
  /\ UNCHANGED <<mode, host, auto_read_data, auto_enabled>>

\* Mutant: the auto read relies on the latch of the program.
AutoReadUnlatched(ok) ==
  /\ phase = "vblank" /\ auto_enabled
  /\ phase' = "visible"
  /\ LET s == LatchIfNeeded(inp, ok)
     IN  /\ auto_read_data' =
              [p \in Ports |-> IF p \in Attached THEN s.pad[p] ELSE Cleared]
         /\ inp' = [s EXCEPT !.pad = [p \in Attached |-> Shifted(@[p], Bits)]]
  /\ UNCHANGED <<mode, host, auto_enabled, frame>>

AutoRead(ok) ==
  /\ phase = "vblank" /\ auto_enabled
  /\ phase' = "visible"
  /\ LET s == Pulse(inp, ok)
     IN  /\ auto_read_data' =
              [p \in Ports |-> IF p \in Attached THEN s.pad[p] ELSE Cleared]
         /\ inp' = [s EXCEPT !.pad = [p \in Attached |-> Shifted(@[p], Bits)]]
  /\ UNCHANGED <<mode, host, auto_enabled, frame>>

SkipAutoRead ==
  /\ phase = "vblank" /\ ~auto_enabled
  /\ phase' = "visible"
  /\ UNCHANGED <<mode, host, inp, auto_read_data, auto_enabled, frame>>

Program == \/ \E new, ok \in BOOLEAN : StoreLatch(new, ok)
           \/ \E p \in Ports : ReadPort(p)
           \/ \E enable \in BOOLEAN : StoreNmitimen(enable)

FrameLoop == \/ \E ok \in BOOLEAN : NewFrame(ok)
             \/ \E ok \in BOOLEAN : AutoRead(ok)
             \/ SkipAutoRead

Next == \/ StartRecording \/ StartReplay \/ RestoreAtStart \/ Run
        \/ LoadState
        \/ \E p \in Attached, w \in Words : Press(p, w)
        \/ Program
        \/ FrameLoop

Spec == Init /\ [][Next]_vars

\* main runs the emulator, and the emulator runs the frame loop, until the
\* user ends it; a program cannot stop the PPU.
Fairness == WF_vars(Run) /\ WF_vars(FrameLoop)

FairSpec == Spec /\ Fairness

-----------------------------------------------------------------------------
(* What the component promises.                                            *)

\* What a joypad holds is what was recorded last: whatever the program reads
\* while recording, through $4016/$4017 or by auto read, is in the recording
\* (Input::store sets the latch before it calls record_frame).
ReadsAreRecorded ==
  mode = "Recorded" =>
    \/ inp.rec = Hole
    \/ inp.rec = None /\ \A p \in Attached : inp.pad[p].word = NoButtons
    \/ inp.rec = [p \in Attached |-> inp.pad[p].word]

\* The guarantee of Recorder::record_frame, with the exception the code
\* makes: a complete frame was recorded at least once unless the program
\* still held the latch at its end.
RecordedUnlessHeld ==
  mode = "Recorded" /\ frame # None => frame.recs >= 1 \/ frame.held

\* While replaying, the user's buttons reach no joypad, whichever way the
\* program latches or reads them (start_replay's comment).
ReplayIgnoresUser ==
  mode = "Replayed" => \A p \in Attached : inp.pad[p].word = NoButtons

\* An auto read that finds the latch low gives the program the buttons of
\* this moment, whole, whatever it had read serially before, and the recorder
\* sees the same buttons.
AutoReadIsFresh ==
  [][\A ok \in BOOLEAN :
       AutoRead(ok) /\ ~inp.latch /\ mode # "Replayed" =>
         /\ \A p \in Attached : auto_read_data'[p] = [word |-> host[p], pos |-> 0]
         /\ mode = "Recorded" /\ ok => inp'.rec = host]_vars

\* The recording goes on: unless the program holds the latch for ever from
\* some point on, complete frames with a record follow each other for ever.
RecordingGoesOn ==
  []<>(~inp.latch) =>
    []<>(mode # "Recorded" \/ (frame # None /\ frame.recs >= 1))

=============================================================================
