---------------------------- MODULE VoicePipeline ----------------------------
(***************************************************************************)
(* The voice pipeline of one connection: the WebRTCActor (webrtc/            *)
(* pipeline.rs), the jobs it spawns for a turn (speech to text, the reply,   *)
(* its synthesis), and the forwarder that hands their output to the client   *)
(* (webrtc/voice_coordinator.rs).                                            *)
(*                                                                          *)
(* A turn is known by its epoch, the actor's session_id. Every cancellation  *)
(* starts a new epoch; the jobs of an older one notice it only when they     *)
(* look, and an aborted task may still finish what it is polling.            *)
(***************************************************************************)
EXTENDS Naturals, Sequences

CONSTANTS EventCap,   \* capacity of the actor's channel (128 in the code)
          ControlCap, \* capacity of the control channel (16)
          SpeakerCap, \* capacity of the speaker channel (128)
          Kinds,      \* bound: kinds of events the outside sends
          MaxInputs,  \* bound: number of events the outside sends
          MaxClauses, \* bound: clauses in a reply
          Nobody

Inputs == {"VadStart", "VadEnd", "Interrupted", "SpeakText", "ResetDsp"}

ASSUME VoiceAssumption ==
  /\ Kinds \subseteq Inputs
  /\ {EventCap, ControlCap, SpeakerCap} \subseteq Nat \ {0}
  /\ MaxInputs \in Nat /\ MaxClauses \in Nat
  /\ Nobody \notin Nat

VARIABLES
  inputs,   \* events the outside has sent
  events,   \* the actor's channel
  state,    \* PipelineState
  epoch,    \* session_id, which active_session_id shows to the jobs
  todo,     \* what the handler in progress has still to do
  stt,      \* epochs whose transcription runs
  llm,      \* epochs whose reply is being generated
  left,     \* clauses a reply has still to say
  text,     \* clauses waiting in the channel between reply and synthesis
  tts,      \* where the synthesis of an epoch is
  spoke,    \* epochs whose synthesis has announced that it speaks
  aec,      \* who holds the lock of the echo canceller
  speaker,  \* the speaker channel: the epochs of its frames
  control,  \* the control channel: the epochs of its flushes
  polled,   \* the forwarder has found the control channel empty
  gate,     \* the minimum epoch of the forwarder's SpeakerEpochGate
  flushed,  \* history: the last flush the client received
  since     \* history: epochs of the frames it received after that flush

actor == <<events, state, epoch, todo>>
jobs == <<stt, llm, left, text, tts, spoke, aec>>
forwarder == <<polled, gate, flushed, since>>
vars == <<inputs, actor, jobs, speaker, control, forwarder>>

(* An input cancels once, and so may the reply it leads to. *)
Epochs == 0 .. 2 * MaxInputs

States == {"Idle", "VadStart", "SttProcessing", "LlmGenerating", "TtsSpeaking"}
Reports == {"SttCompleted", "LlmCompleted", "TtsSpeaking", "TtsCompleted"}
Steps == {"flush", "dsp", "vad_start", "transcribe", "speak", "idle"}

Event(k, e, ok) == [kind |-> k, of |-> e, ok |-> ok]
Events == [kind : Inputs \cup Reports, of : Epochs, ok : BOOLEAN]

TypeOK ==
  /\ inputs \in 0..MaxInputs
  /\ events \in Seq(Events) /\ Len(events) <= EventCap
  /\ state \in States /\ epoch \in Epochs
  /\ todo \in Seq(Steps)
  /\ stt \subseteq Epochs /\ llm \subseteq Epochs
  /\ left \in [Epochs -> 0..MaxClauses] /\ text \in [Epochs -> Nat]
  /\ tts \in [Epochs -> {"off", "spawned", "reading", "synth", "announce", "frame",
                         "permit", "ending"}]
  /\ spoke \subseteq Epochs
  /\ aec \in Epochs \cup {Nobody}
  /\ speaker \in Seq(Epochs) /\ Len(speaker) <= SpeakerCap
  /\ control \in Seq(Epochs) /\ Len(control) <= ControlCap
  /\ polled \in BOOLEAN /\ gate \in Epochs
  /\ flushed \in Epochs /\ since \subseteq Epochs

Init ==
  /\ inputs = 0 /\ events = <<>> /\ state = "Idle" /\ epoch = 0 /\ todo = <<>>
  /\ stt = {} /\ llm = {} /\ spoke = {} /\ aec = Nobody
  /\ left = [e \in Epochs |-> 0] /\ text = [e \in Epochs |-> 0]
  /\ tts = [e \in Epochs |-> "off"]
  /\ speaker = <<>> /\ control = <<>>
  /\ polled = FALSE /\ gate = 0 /\ flushed = 0 /\ since = {}

Room == Len(events) < EventCap

-----------------------------------------------------------------------------
(* The outside: the coordinator's microphone and the commands. try_send loses *)
(* what the channel has no room for.                                          *)
Input(k) ==
  /\ inputs < MaxInputs
  /\ inputs' = inputs + 1
  /\ events' = IF Room THEN Append(events, Event(k, 0, TRUE)) ELSE events
  /\ UNCHANGED <<state, epoch, todo, jobs, speaker, control, forwarder>>

-----------------------------------------------------------------------------
(* The actor *)

(* What is left of a handler after cancel_active_operations has taken a new   *)
(* epoch: the flush, and what the event asked for.                            *)
(* Mutant: an error of the reply leaves the state as it is.                   *)
AfterCancelNoIdle ==
  [VadStart     |-> <<"flush", "vad_start">>,
   VadEnd       |-> <<"flush", "transcribe">>,
   Interrupted  |-> <<"flush", "dsp", "idle">>,
   SpeakText    |-> <<"flush", "speak">>,
   LlmCompleted |-> <<"flush", "dsp">>]
AfterCancel ==
  [VadStart     |-> <<"flush", "vad_start">>,
   VadEnd       |-> <<"flush", "transcribe">>,
   Interrupted  |-> <<"flush", "dsp", "idle">>,
   SpeakText    |-> <<"flush", "speak">>,
   LlmCompleted |-> <<"flush", "dsp", "idle">>]

(* A job of an older epoch reports to nobody. Mutant: it is believed. *)
CurrentAlways(ev) == TRUE
Current(ev) == ev.of = epoch

Cancels(ev) ==
  \/ ev.kind \in {"VadStart", "VadEnd", "Interrupted", "SpeakText"}
  \/ ev.kind = "LlmCompleted" /\ Current(ev) /\ ~ev.ok

(* Jobs of the old epoch are aborted: see Aborted.                          *)
CancelFor(ev) ==
  /\ Cancels(ev)
  /\ epoch' = epoch + 1
  /\ todo' = AfterCancel[ev.kind]
  /\ UNCHANGED <<state, jobs>>

Transcribed(ev) ==
  /\ ev.kind = "SttCompleted" /\ Current(ev) /\ ev.ok
  /\ state' = "LlmGenerating"
  /\ llm' = llm \cup {epoch}
  /\ left' = [left EXCEPT ![epoch] = MaxClauses]
  /\ tts' = [tts EXCEPT ![epoch] = "spawned"]
  /\ UNCHANGED <<epoch, todo, stt, text, spoke, aec>>

TurnOver(ev) ==
  /\ \/ ev.kind = "SttCompleted" /\ Current(ev) /\ ~ev.ok
     \/ ev.kind = "TtsCompleted" /\ Current(ev)
  /\ todo' = <<"dsp", "idle">>
  /\ UNCHANGED <<state, epoch, jobs>>

Speaking(ev) ==
  /\ ev.kind = "TtsSpeaking" /\ Current(ev)
  /\ state' = IF state = "LlmGenerating" THEN "TtsSpeaking" ELSE state
  /\ UNCHANGED <<epoch, todo, jobs>>

ResetDsp(ev) ==
  /\ ev.kind = "ResetDsp"
  /\ todo' = <<"dsp">>
  /\ UNCHANGED <<state, epoch, jobs>>

Ignored(ev) ==
  /\ ev.kind \in Reports
  /\ ~Current(ev) \/ (ev.kind = "LlmCompleted" /\ ev.ok)
  /\ UNCHANGED <<state, epoch, todo, jobs>>

Receive ==
  /\ todo = <<>> /\ events # <<>>
  /\ events' = Tail(events)
  /\ LET ev == Head(events) IN
       \/ CancelFor(ev) \/ Transcribed(ev) \/ TurnOver(ev)
       \/ Speaking(ev) \/ ResetDsp(ev) \/ Ignored(ev)
  /\ UNCHANGED <<inputs, speaker, control, forwarder>>

NextStep(s) ==
  /\ todo # <<>> /\ Head(todo) = s
  /\ todo' = Tail(todo)
  /\ UNCHANGED <<inputs, events, epoch, speaker, forwarder>>

(* Mutants: a new turn starts without a flush of the old one; the flush is    *)
(* sent without waiting for room.                                             *)
FlushForced ==
  /\ NextStep("flush")
  /\ control' = Append(control, epoch)
  /\ UNCHANGED <<state, jobs>>
NoFlush ==
  /\ NextStep("flush")
  /\ UNCHANGED <<state, control, jobs>>

(* send_control waits for room. *)
SendFlush ==
  /\ NextStep("flush")
  /\ Len(control) < ControlCap
  /\ control' = Append(control, epoch)
  /\ UNCHANGED <<state, jobs>>

(* reset_turn_dsp waits for the echo canceller's lock. *)
ResetTurnDsp ==
  /\ NextStep("dsp")
  /\ aec = Nobody
  /\ UNCHANGED <<state, control, jobs>>

StartListening ==
  /\ NextStep("vad_start")
  /\ state' = "VadStart"
  /\ UNCHANGED <<control, jobs>>

StartTranscription ==
  /\ NextStep("transcribe")
  /\ state' = "SttProcessing"
  /\ stt' = stt \cup {epoch}
  /\ UNCHANGED <<control, llm, left, text, tts, spoke, aec>>

StartSpeech ==
  /\ NextStep("speak")
  /\ state' = "LlmGenerating"
  /\ text' = [text EXCEPT ![epoch] = 1]
  /\ tts' = [tts EXCEPT ![epoch] = "spawned"]
  /\ UNCHANGED <<control, stt, llm, left, spoke, aec>>

BecomeIdle ==
  /\ NextStep("idle")
  /\ state' = "Idle"
  /\ UNCHANGED <<control, jobs>>

Actor == \/ Receive \/ SendFlush \/ ResetTurnDsp \/ StartListening
         \/ StartTranscription \/ StartSpeech \/ BecomeIdle

-----------------------------------------------------------------------------
(* The jobs of a turn *)

Report(k, e, ok) ==
  /\ Room
  /\ events' = Append(events, Event(k, e, ok))
  /\ UNCHANGED <<inputs, state, epoch, todo, speaker, control, forwarder>>

(* abort() of a task whose epoch is over takes effect when the task next      *)
(* waits; a synthesis that has started in its thread is never aborted.        *)
Aborted(e) ==
  /\ e # epoch
  /\ \/ e \in stt /\ stt' = stt \ {e} /\ UNCHANGED <<llm, tts>>
     \/ e \in llm /\ llm' = llm \ {e} /\ UNCHANGED <<stt, tts>>
     \/ /\ tts[e] = "spawned" /\ tts' = [tts EXCEPT ![e] = "off"]
        /\ UNCHANGED <<stt, llm>>
  /\ UNCHANGED <<inputs, actor, left, text, spoke, aec, speaker, control, forwarder>>

SttEnds(e) ==
  /\ e \in stt
  /\ stt' = stt \ {e}
  /\ \E ok \in BOOLEAN : Report("SttCompleted", e, ok)
  /\ UNCHANGED <<llm, left, text, tts, spoke, aec>>

SayClause(e) ==
  /\ e \in llm /\ e = epoch /\ left[e] > 0
  /\ left' = [left EXCEPT ![e] = @ - 1]
  /\ text' = [text EXCEPT ![e] = @ + 1]
  /\ UNCHANGED <<inputs, actor, stt, llm, tts, spoke, aec, speaker, control, forwarder>>

LlmEnds(e) ==
  /\ e \in llm
  /\ llm' = llm \ {e}
  /\ \E ok \in BOOLEAN : Report("LlmCompleted", e, ok)
  /\ UNCHANGED <<stt, left, text, tts, spoke, aec>>

Silent == UNCHANGED <<inputs, actor, stt, llm, left, control, forwarder>>

TtsStarts(e) ==
  /\ tts[e] = "spawned"
  /\ tts' = [tts EXCEPT ![e] = "reading"]
  /\ Silent /\ UNCHANGED <<text, spoke, aec, speaker>>

(* The next clause, or the end of the reply, whose channel lives as long as   *)
(* the job that writes it. The clause left in the chunker counts as the last. *)
ReadClause(e) ==
  /\ tts[e] = "reading"
  /\ \/ /\ text[e] > 0
        /\ text' = [text EXCEPT ![e] = @ - 1]
        /\ tts' = [tts EXCEPT ![e] = IF e = epoch THEN "synth" ELSE "ending"]
     \/ /\ text[e] = 0 /\ e \notin llm
        /\ tts' = [tts EXCEPT ![e] = "ending"]
        /\ UNCHANGED text
  /\ Silent /\ UNCHANGED <<spoke, aec, speaker>>

(* Nothing to say, a failure, or samples: they go to the echo canceller first, *)
(* whose lock is kept until the clause is sent. Mutant: it is not kept.       *)
SynthesizeUnlocked(e) ==
  /\ tts[e] = "synth"
  /\ \/ tts' = [tts EXCEPT ![e] = "reading"]
     \/ tts' = [tts EXCEPT ![e] = "ending"]
     \/ /\ e = epoch /\ aec = Nobody
        /\ tts' = [tts EXCEPT ![e] = IF e \in spoke THEN "frame" ELSE "announce"]
  /\ Silent /\ UNCHANGED <<text, spoke, aec, speaker>>

Synthesize(e) ==
  /\ tts[e] = "synth"
  /\ \/ tts' = [tts EXCEPT ![e] = "reading"] /\ UNCHANGED aec
     \/ tts' = [tts EXCEPT ![e] = "ending"] /\ UNCHANGED aec
     \/ /\ e = epoch /\ aec = Nobody
        /\ aec' = e
        /\ tts' = [tts EXCEPT ![e] = IF e \in spoke THEN "frame" ELSE "announce"]
  /\ Silent /\ UNCHANGED <<text, spoke, speaker>>

Announce(e) ==
  /\ tts[e] = "announce"
  /\ tts' = [tts EXCEPT ![e] = "frame"]
  /\ spoke' = spoke \cup {e}
  /\ Report("TtsSpeaking", e, TRUE)
  /\ UNCHANGED <<stt, llm, left, text, aec>>

(* blocking_send_speaker_if_current: the epoch, a place in the channel, the   *)
(* epoch again; then the frame goes, whatever happens in between.             *)
Reserve(e) ==
  /\ tts[e] = "frame"
  /\ \/ /\ e = epoch /\ Len(speaker) < SpeakerCap
        /\ tts' = [tts EXCEPT ![e] = "permit"]
        /\ UNCHANGED aec
     \/ /\ e # epoch \/ Len(speaker) = SpeakerCap
        /\ tts' = [tts EXCEPT ![e] = "ending"]
        /\ aec' = Nobody
  /\ Silent /\ UNCHANGED <<text, spoke, speaker>>

(* The frames of a clause are one here. *)
SendFrame(e) ==
  /\ tts[e] = "permit"
  /\ speaker' = Append(speaker, e)
  /\ tts' = [tts EXCEPT ![e] = "reading"]
  /\ aec' = Nobody
  /\ Silent /\ UNCHANGED <<text, spoke>>

TtsEnds(e) ==
  /\ tts[e] = "ending"
  /\ tts' = [tts EXCEPT ![e] = "off"]
  /\ Report("TtsCompleted", e, TRUE)
  /\ UNCHANGED <<stt, llm, left, text, spoke, aec>>

Tts(e) == \/ TtsStarts(e) \/ ReadClause(e) \/ Synthesize(e) \/ Announce(e)
          \/ Reserve(e) \/ SendFrame(e) \/ TtsEnds(e)

-----------------------------------------------------------------------------
(* The forwarder: a biased select, the control channel first. *)

ForwardFlush ==
  /\ control # <<>> /\ ~polled
  /\ control' = Tail(control)
  /\ gate' = IF Head(control) > gate THEN Head(control) ELSE gate
  /\ flushed' = Head(control)
  /\ since' = {}
  /\ UNCHANGED <<inputs, actor, jobs, speaker, polled>>

(* Nothing to control at this poll; then a frame, or sleep until either comes. *)
PollControl ==
  /\ control = <<>> /\ ~polled
  /\ polled' = TRUE
  /\ UNCHANGED <<inputs, actor, jobs, speaker, control, gate, flushed, since>>

Sleep ==
  /\ polled /\ speaker = <<>>
  /\ polled' = FALSE
  /\ UNCHANGED <<inputs, actor, jobs, speaker, control, gate, flushed, since>>

(* SpeakerEpochGate::accepts. Mutant: every frame passes. *)
AcceptsAll(e) == TRUE
Accepts(e) == e >= gate

ForwardFrame ==
  /\ polled /\ speaker # <<>>
  /\ polled' = FALSE
  /\ speaker' = Tail(speaker)
  /\ since' = IF Accepts(Head(speaker)) THEN since \cup {Head(speaker)} ELSE since
  /\ UNCHANGED <<inputs, actor, jobs, control, gate, flushed>>

Forwarder == ForwardFlush \/ PollControl \/ Sleep \/ ForwardFrame
-----------------------------------------------------------------------------
Job == \E e \in Epochs : SttEnds(e) \/ LlmEnds(e) \/ Tts(e)

Next == \/ \E k \in Kinds : Input(k)
        \/ Actor \/ Forwarder \/ Job
        \/ \E e \in Epochs : Aborted(e) \/ SayClause(e)

Spec == Init /\ [][Next]_vars

(* Every task and thread is scheduled, the sink of the forwarder returns, and *)
(* models that run end: jobs have finitely many steps to take in all, so that *)
(* it is enough to be fair to them together.                                  *)
FairSpec == Spec /\ WF_vars(Actor) /\ WF_vars(Forwarder) /\ WF_vars(Job)

-----------------------------------------------------------------------------
(* What the pipeline promises *)

(* Once the client has been told of a cancellation it hears nothing of the    *)
(* turns before it, although a synthesis may send a frame after the new epoch *)
(* and although flush and frames travel in two channels.                      *)
NoStaleAudio == \A e \in since : e >= flushed

(* The frames of two turns never mix: the echo canceller's lock, kept for a   *)
(* clause, lets an old turn finish what it had a place for before a new turn  *)
(* sends its first frame.                                                     *)
TurnsInOrder ==
  /\ \A i, j \in 1..Len(speaker) : i <= j => speaker[i] <= speaker[j]
  /\ \A e \in Epochs, i \in 1..Len(speaker) : tts[e] = "permit" => speaker[i] <= e

Coming(k) == \E i \in 1..Len(events) : events[i].kind = k /\ events[i].of = epoch

(* Between two events the state tells the truth of the current turn. One that *)
(* waits for a job has one to wait for: its report is in the channel or the   *)
(* job still runs. One that waits for the user has no transcription or        *)
(* synthesis behind its back. It says TtsSpeaking only of a turn that speaks. *)
StateFitsTheTurn ==
  /\ TypeOK
  /\ todo = <<>> =>
       /\ state = "SttProcessing" => epoch \in stt \/ Coming("SttCompleted")
       /\ state \in {"LlmGenerating", "TtsSpeaking"} =>
            tts[epoch] # "off" \/ Coming("TtsCompleted")
       /\ state \in {"Idle", "VadStart"} => epoch \notin stt /\ tts[epoch] = "off"
       /\ state = "TtsSpeaking" => epoch \in spoke

(* Turns come to their end, if the actor's channel never fills: the pipeline  *)
(* keeps coming back to a state that waits for the user, with the client told *)
(* of the last cancellation.                                                  *)
EveryTurnEnds ==
  []Room => []<>(todo = <<>> /\ state \in {"Idle", "VadStart"} /\ flushed = epoch)

-----------------------------------------------------------------------------
(* Statements of the repository that the code does not keep *)

(* An interrupt that was accepted stops the speech and makes the state idle.  *)
InterruptReachesIdle ==
  (\E i \in 1..Len(events) : events[i].kind = "Interrupted") ~> state = "Idle"
=============================================================================
