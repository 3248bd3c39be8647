----------------------------- MODULE Emulator -------------------------------
(***************************************************************************)
(* The program around the console (breeze/main.rs, Emulator in             *)
(* breeze_core/snes.rs, SdlManager::update in breeze_sdl/lib.rs): it       *)
(* starts, emulates frames, takes events of the user and acts on them, and *)
(* saves and restores states in a file, field by field                     *)
(* (breeze_core/save.rs, libsavestate/lib.rs).  A write may fail, and the  *)
(* process may be killed at any step and started again: the file stays.    *)
(*                                                                         *)
(* A field has no content but its age: the number of the frame after which *)
(* the console was in the state the field belongs to.  What a save state   *)
(* leaves out (ROM, frame buffer, caches of the renderer) is not a field.  *)
(***************************************************************************)
EXTENDS Integers, Sequences, SequencesExt

CONSTANTS
  Fields,      \* number of fields of a state
  BufSize,     \* fields a BufWriter holds
  MaxFrames,   \* bound of the model: frames that are told apart
  MaxQueue     \* bound of the model: events that wait

ASSUME EmulatorAssumption ==
  /\ Fields \in Nat \ {0} /\ BufSize \in Nat \ {0}
  /\ MaxFrames \in Nat /\ MaxQueue \in Nat

VARIABLES
  phase,     \* what the process does
  opts,      \* its arguments: recording or replaying, and oneframe
  machine,   \* the age of every field of the console
  clock,     \* frames emulated, over all processes
  events,    \* SDL's queue
  actions,   \* actions the renderer has returned that are not handled yet
  file,      \* breeze.sav, or NONE
  buf,       \* fields in the BufWriter
  at,        \* fields saved or restored so far
  asked,     \* history: actions of the user that were not yet due, in order
  saved      \* history: the age of the state the file is made from

vars == <<phase, opts, machine, clock, events, actions, file, buf, at, asked, saved>>

NONE == [fields |-> <<>>, exists |-> FALSE]
File(fields) == [fields |-> fields, exists |-> TRUE]
ActionOf == [quit |-> "Exit", f5 |-> "SaveState", f9 |-> "LoadState"]
Events == {"quit", "f5", "f9", "other"}     \* the other ones are no action
Phases == {"off", "frame", "acting", "saving", "loading", "booting", "paused"}
Alive == phase # "off"
WithInput == {"user", "record", "replay"}

Whole(age) == [f \in 1..Fields |-> age]

\* The process ends: it returns, panics or is killed.  Its queue is lost.
End ==
  /\ phase' = "off" /\ events' = <<>> /\ actions' = <<>> /\ buf' = <<>> /\ at' = 0
  /\ asked' = <<>>
  /\ UNCHANGED <<opts, machine, clock>>

-----------------------------------------------------------------------------
(* Starting (process_args).                                                *)

\* With a save state, the file is opened first: if there is none, unwrap panics.
Start(input, oneframe, savestate) ==
  /\ phase = "off"
  /\ savestate => file.exists
  /\ phase' = IF savestate THEN "booting" ELSE "frame"
  /\ opts' = [input |-> input, oneframe |-> oneframe]
  /\ machine' = Whole(0)
  /\ UNCHANGED <<clock, events, actions, file, buf, at, asked, saved>>

Kill == Alive /\ End /\ UNCHANGED <<file, saved>>

-----------------------------------------------------------------------------
(* Frames and events.                                                      *)

\* The user does something.
Event(e) ==
  /\ Alive /\ Len(events) < MaxQueue
  /\ events' = Append(events, e)
  /\ asked' = IF e \in DOMAIN ActionOf THEN Append(asked, ActionOf[e]) ELSE asked
  /\ UNCHANGED <<phase, opts, machine, clock, actions, file, buf, at, saved>>

IsAction(e) == e \in DOMAIN ActionOf

\* Mutant: the rest of the queue is polled, and lost.
PollAll(queue) ==
  LET k == SelectInSeq(queue, IsAction)
  IN  [events |-> <<>>, actions |-> IF k = 0 THEN <<>> ELSE <<ActionOf[queue[k]]>>]

\* SdlManager::update: polling ends with the first action.
Poll(queue) ==
  LET k == SelectInSeq(queue, IsAction)
  IN  [events |-> IF k = 0 THEN <<>> ELSE SubSeq(queue, k + 1, Len(queue)),
       actions |-> IF k = 0 THEN <<>> ELSE <<ActionOf[queue[k]]>>]

\* Snes::render_frame, in which the renderer polls.  With oneframe the first
\* frame is emulated with a renderer that does nothing.
Frame ==
  /\ phase = "frame"
  /\ clock' = IF clock < MaxFrames THEN clock + 1 ELSE clock
  /\ machine' = Whole(clock')
  /\ IF opts.oneframe
     THEN phase' = "paused" /\ UNCHANGED <<events, actions>>
     ELSE /\ phase' = "acting"
          /\ events' = Poll(events).events /\ actions' = Poll(events).actions
  /\ UNCHANGED <<opts, file, buf, at, asked, saved>>

\* The loop of oneframe renders without emulating.
RenderPaused ==
  /\ phase = "paused"
  /\ phase' = "acting"
  /\ events' = Poll(events).events /\ actions' = Poll(events).actions
  /\ UNCHANGED <<opts, machine, clock, file, buf, at, asked, saved>>

\* What was asked for after the first.
Later(s) == SubSeq(s, 2, Len(s))

Handled == actions' = Tail(actions) /\ asked' = Later(asked)

ActionsDone ==
  /\ phase = "acting" /\ actions = <<>>
  /\ phase' = IF opts.oneframe THEN "paused" ELSE "frame"
  /\ UNCHANGED <<opts, machine, clock, events, actions, file, buf, at, asked, saved>>

\* Mutant: run ignores that handle_action says to exit.
ExitIgnored ==
  /\ phase = "acting" /\ actions # <<>> /\ Head(actions) = "Exit"
  /\ actions' = <<>> /\ asked' = Later(asked)
  /\ UNCHANGED <<phase, opts, machine, clock, events, file, buf, at, saved>>

\* The loop of oneframe leaves the actions, not the program.
Exit ==
  /\ phase = "acting" /\ actions # <<>> /\ Head(actions) = "Exit"
  /\ IF opts.oneframe
     THEN /\ actions' = <<>> /\ asked' = Later(asked)
          /\ UNCHANGED <<phase, opts, machine, clock, events, buf, at>>
     ELSE End
  /\ UNCHANGED <<file, saved>>

-----------------------------------------------------------------------------
(* Saving.                                                                 *)

\* Mutant: the file is opened for writing, but keeps its content.
SaveOver ==
  /\ phase = "acting" /\ actions # <<>> /\ Head(actions) = "SaveState"
  /\ phase' = "saving" /\ Handled
  /\ file' = File(file.fields) /\ saved' = machine[1] /\ at' = 0
  /\ UNCHANGED <<opts, machine, clock, events, buf>>

\* File::create truncates what was saved before.
Save ==
  /\ phase = "acting" /\ actions # <<>> /\ Head(actions) = "SaveState"
  /\ phase' = "saving" /\ Handled
  /\ file' = File(<<>>) /\ saved' = machine[1] /\ at' = 0
  /\ UNCHANGED <<opts, machine, clock, events, buf>>

\* The file after n fields of the buffer have been written at its place.
Written(n) ==
  LET start == at - Len(buf)
  IN  File(SubSeq(file.fields, 1, start) \o SubSeq(buf, 1, n)
           \o SubSeq(file.fields, start + n + 1, Len(file.fields)))

\* A field goes to the buffer; a full one is written first.
SaveField ==
  /\ phase = "saving" /\ at < Fields
  /\ IF Len(buf) < BufSize
     THEN buf' = Append(buf, machine[at + 1]) /\ file' = file
     ELSE buf' = <<machine[at + 1]>> /\ file' = Written(Len(buf))
  /\ at' = at + 1
  /\ UNCHANGED <<phase, opts, machine, clock, events, actions, asked, saved>>

\* Writing a full buffer fails, after a part of it: unwrap panics.
SaveFails ==
  /\ phase = "saving" /\ at < Fields /\ Len(buf) = BufSize
  /\ \E n \in 0..(Len(buf) - 1) : file' = Written(n)
  /\ End /\ saved' = saved

\* The BufWriter is dropped, which writes the rest.  If that fails nobody
\* is told.
SaveEnds ==
  /\ phase = "saving" /\ at = Fields
  /\ \E n \in 0..Len(buf) : file' = Written(n)
  /\ buf' = <<>> /\ at' = 0
  /\ phase' = "acting"
  /\ UNCHANGED <<opts, machine, clock, events, actions, asked, saved>>

-----------------------------------------------------------------------------
(* Restoring.                                                              *)

\* handle_action(LoadState).  If there is no file, unwrap panics.
Load ==
  /\ phase = "acting" /\ actions # <<>> /\ Head(actions) = "LoadState"
  /\ IF opts.input # "user"
     THEN Handled /\ UNCHANGED <<phase, opts, machine, clock, events, buf, at>>
     ELSE IF file.exists
     THEN phase' = "loading" /\ Handled /\ UNCHANGED <<opts, machine, clock, events, buf, at>>
     ELSE End
  /\ UNCHANGED <<file, saved>>

\* A field is restored in place.
LoadField ==
  /\ phase \in {"loading", "booting"} /\ at < Fields /\ at < Len(file.fields)
  /\ machine' = [machine EXCEPT ![at + 1] = file.fields[at + 1]]
  /\ at' = at + 1
  /\ UNCHANGED <<phase, opts, clock, events, actions, file, buf, asked, saved>>

\* Mutant: a file that is too short is only logged.
LoadFailsLogged ==
  /\ phase \in {"loading", "booting"} /\ at < Fields /\ at = Len(file.fields)
  /\ phase' = IF phase = "booting" THEN "frame" ELSE "acting"
  /\ at' = 0
  /\ UNCHANGED <<opts, machine, clock, events, actions, file, buf, asked, saved>>

\* The file is too short: unwrap panics.
LoadFails ==
  /\ phase \in {"loading", "booting"} /\ at < Fields /\ at = Len(file.fields)
  /\ End /\ UNCHANGED <<file, saved>>

LoadEnds ==
  /\ phase \in {"loading", "booting"} /\ at = Fields
  /\ phase' = IF phase = "booting" THEN "frame" ELSE "acting"
  /\ at' = 0
  /\ UNCHANGED <<opts, machine, clock, events, actions, file, buf, asked, saved>>

-----------------------------------------------------------------------------
Init ==
  /\ phase = "off" /\ opts = [input |-> "user", oneframe |-> FALSE]
  /\ machine = Whole(0) /\ clock = 0
  /\ events = <<>> /\ actions = <<>> /\ asked = <<>>
  /\ file = NONE /\ buf = <<>> /\ at = 0 /\ saved = 0

Process ==
  \/ Frame \/ RenderPaused \/ ActionsDone \/ Exit
  \/ Save \/ SaveField \/ SaveFails \/ SaveEnds
  \/ Load \/ LoadField \/ LoadFails \/ LoadEnds

Next ==
  \/ Process \/ Kill \/ \E e \in Events : Event(e)
  \/ \E input \in WithInput, oneframe, savestate \in BOOLEAN : Start(input, oneframe, savestate)

\* A process that is not killed goes on.
Spec == Init /\ [][Next]_vars /\ WF_vars(Process)

-----------------------------------------------------------------------------
Ages == 0..MaxFrames

TypeOK ==
  /\ phase \in Phases /\ opts \in [input : WithInput, oneframe : BOOLEAN]
  /\ machine \in [1..Fields -> Ages] /\ clock \in Ages
  /\ events \in Seq(Events) /\ Len(events) <= MaxQueue
  /\ actions \in Seq(Range(ActionOf)) /\ asked \in Seq(Range(ActionOf))
  /\ file.exists \in BOOLEAN /\ file.fields \in Seq(Ages) /\ Len(file.fields) <= Fields
  /\ buf \in Seq(Ages) /\ Len(buf) <= BufSize /\ at \in 0..Fields
  /\ saved \in Ages

\* The console never runs, and is never saved, in a state that is a mixture
\* of two: not after a save that was cut off, a restart from what it left, or
\* a file that is too short.
NeverTorn == phase \notin {"off", "loading", "booting"} => \E age \in Ages : machine = Whole(age)

\* The file is a beginning of the one state that was saved last, however
\* saving ended; what is restored from it is that state.
FileOfOneState ==
  /\ \A f \in 1..Len(file.fields) : file.fields[f] = saved
  /\ phase \in {"loading", "booting"} /\ at = Fields => machine = Whole(saved)

\* What the events of a queue ask for, one by one in their order.
Asks(want, queue) ==
  \E place \in [DOMAIN want -> DOMAIN queue] :
    /\ {place[k] : k \in DOMAIN want} = {i \in DOMAIN queue : IsAction(queue[i])}
    /\ \A j, k \in DOMAIN want : j < k => place[j] < place[k]
    /\ \A k \in DOMAIN want : want[k] = ActionOf[queue[place[k]]]

\* What the user asks for is done in the order it was asked for, and
\* nothing is forgotten while the process lives.
ActionsInOrder ==
  Alive =>
    /\ Len(actions) <= Len(asked)
    /\ actions = SubSeq(asked, 1, Len(actions))
    /\ Asks(SubSeq(asked, Len(actions) + 1, Len(asked)), events)

\* A request to exit ends a process that emulates, whatever else is asked for.
ExitEnds == (~opts.oneframe /\ "Exit" \in Range(asked)) ~> ~Alive

=============================================================================
