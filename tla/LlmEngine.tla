------------------------------ MODULE LlmEngine ------------------------------
(***************************************************************************)
(* The LLM engine (llm/engine.rs) and everyone who uses it: one manager     *)
(* behind one lock, shared by the commands, the voice turns, the LLM        *)
(* actor's backend, the loader of the configured model and the loop that    *)
(* gives the GPU back to a game. A generation holds the lock from its first  *)
(* step to its last; cancellation is a process-wide flag that any task sets  *)
(* without the lock.                                                        *)
(***************************************************************************)
EXTENDS LlmContext

CONSTANTS
  Requests,    \* how many requests arrive, numbered as they do
  Routers,     \* models the configuration may name
  Boot,        \* the one it names when the core starts
  Expert,      \* the model of hard questions
  Shelf,       \* models a command asks for by name
  Vocab,       \* the tokens a model may sample, its end of turn apart
  Persona,     \* the tokens every conversation begins with
  Prompts,     \* conversations, as token sequences
  Hard,        \* those whose question is hard
  Picture,     \* a question about the screen, image and all
  MaxAnswer,   \* bound: tokens before raw_response_bytes ends a generation
  MaxTroubles, \* bound: cancellations, callers that leave, loads and decodes that
               \* fail, games that start or end, in all
  None

Loader == 0                \* the request the core makes when it starts
Job == 0..Requests
Models == Routers \cup {Expert}
Modes == {"normal", "game"}  \* layers on the GPU, and whether a game asks for fewer

Nested == {"chat", "voice"}  \* generate_budgeted_*: two guards, a prompt cut to fit
Direct == {"direct", "decide"}  \* one guard, a prompt made before the lock
Generating == Nested \cup Direct \cup {"look"}
Loading == {"swap", "apply", "autoload"}
Turns == {"voice", "look"}   \* of a voice session, which ends without the flag

Conversations == Prompts \cup {Persona, Picture}
Tokens == Vocab \cup UNION {{p[i] : i \in DOMAIN p} : p \in Conversations}

ASSUME EngineAssumption ==
  /\ Requests \in Nat /\ Boot \in Routers /\ Expert \notin Routers
  /\ Shelf \subseteq Models
  /\ None \notin Models /\ None \notin Job /\ None \notin Modes
  /\ None \notin [model : Models, layers : Modes]
  /\ Hard \subseteq Prompts
  /\ \A p \in Conversations : p \in Seq(Tokens) /\ Len(p) > 0
  /\ Fits(Persona) /\ Fits(Picture)
  /\ MaxAnswer \in Nat \ {0} /\ MaxTroubles \in Nat

VARIABLES
  lock,      \* the request that holds the manager
  engine,    \* its engine: the model and its layers, or None
  context,
  path,      \* current_model_path
  layers,    \* n_gpu_layers
  role,      \* ExpertSwapGovernor::current_role
  template,  \* CHATML and GEMMA4_MARKERS: the model whose format prompts take
  cancel,    \* GLOBAL_LLM_CANCEL_REQUESTED
  config,    \* the model the configuration names
  game,
  latched,   \* last_active of the game loop
  target,    \* the layers it is about to ask for
  spoiled,   \* history: its reload failed, or someone set the layers by hand
  troubles,  \* how many there were
  job

manager == <<engine, context, path, layers, role, template>>
world == <<config, game, latched, target, spoiled>>
vars == <<lock, manager, cancel, world, troubles, job>>

Idle == [pc |-> "none", kind |-> None, hard |-> FALSE, prompt |-> <<>>, path |-> None,
         id |-> None, format |-> None, said |-> <<>>, past |-> 0, token |-> None,
         told |-> FALSE, gone |-> FALSE, out |-> None]

TypeOK ==
  /\ lock \in Job \cup {None} /\ cancel \in BOOLEAN /\ spoiled \in BOOLEAN
  /\ engine = None \/ engine \in [model : Models, layers : Modes]
  /\ context.last \in Seq(Tokens)
  /\ path \in Models \cup {None} /\ layers \in Modes /\ role \in {"Router", "Expert"}
  /\ template \in Models \cup {None} /\ config \in Routers
  /\ game \in Modes /\ latched \in Modes \cup {None} /\ target \in Modes \cup {None}
  /\ \A j \in Job :
       /\ job[j].pc \in {"none", "configured", "waiting", "entered", "loop", "token",
                         "finish", "closing", "done", "over"}
       /\ job[j].kind \in Generating \cup Loading \cup {None}
       /\ job[j].past \in 0..NCtx /\ Len(job[j].said) <= MaxAnswer
       /\ job[j].out \in {None, "ok", "cancelled", "error"}
  /\ \A j \in Job : job[j].pc \in {"entered", "loop", "token", "finish", "closing"} => lock = j

Init ==
  /\ lock = None /\ engine = None /\ context = Empty /\ path = None
  /\ layers = "normal" /\ role = "Router" /\ template = None
  /\ cancel = FALSE /\ config = Boot /\ game = "normal" /\ latched = None /\ target = None
  /\ spoiled = FALSE
  /\ troubles = 0
  /\ job = [j \in Job |-> IF j = Loader
              THEN [Idle EXCEPT !.pc = "configured", !.kind = "autoload"] ELSE Idle]

At(j, pc) == job[j].pc = pc
Is(j, K) == job[j].kind \in K
Trouble == troubles < MaxTroubles /\ troubles' = troubles + 1
NoTrouble == UNCHANGED troubles

-----------------------------------------------------------------------------
(* Requests arrive *)

(* A prompt made before the lock is made in the format of the model of then;  *)
(* a question about the screen notes the model of then for its record.        *)
Ask(j) ==
  /\ \E k \in Generating, p \in Prompts \cup {Picture} :
       /\ (k = "look") = (p = Picture)
       /\ job' = [job EXCEPT ![j] =
            [Idle EXCEPT !.pc = "waiting", !.kind = k, !.prompt = p,
               !.hard = k \in Nested /\ p \in Hard,
               !.format = IF k = "direct" THEN template ELSE None,
               !.id = IF k = "look" THEN path ELSE None]]
  /\ UNCHANGED config

AskToSwap(j) ==
  /\ job' = [job EXCEPT ![j] = [Idle EXCEPT !.pc = "waiting", !.kind = "swap"]]
  /\ UNCHANGED config

(* update_config writes the file, and loads in a task of its own. *)
Apply(j) ==
  /\ \E m \in Routers : config' = m
  /\ job' = [job EXCEPT ![j] = [Idle EXCEPT !.pc = "configured", !.kind = "apply"]]

Arrive(j) ==
  /\ At(j, "none") /\ \A i \in 0..(j - 1) : ~At(i, "none")
  /\ Ask(j) \/ AskToSwap(j) \/ Apply(j)
  /\ UNCHANGED <<lock, manager, cancel, game, latched, target, spoiled, troubles>>

ReadConfig(j) ==
  /\ At(j, "configured")
  /\ job' = [job EXCEPT ![j].pc = "waiting", ![j].path = config]
  /\ UNCHANGED <<lock, manager, cancel, world, troubles>>

-----------------------------------------------------------------------------
(* Loading: the old engine goes first, so a load that fails leaves none; one   *)
(* that fails at its context has already changed the format.                  *)

Swapped(m, n) ==
  /\ engine' = [model |-> m, layers |-> n]
  /\ path' = m /\ layers' = n /\ template' = m
NotSwapped(m) ==
  /\ engine' = None /\ context' = Empty
  /\ template' \in {template, m}
  /\ UNCHANGED <<path, layers>>

(* Mutant: without a count of its own, a load takes the usual layers. *)
UsualLayers == "normal"
OwnLayers == layers

SwapModel(m, n) == \/ Swapped(m, n) /\ context' = Empty /\ NoTrouble
                   \/ NotSwapped(m) /\ Trouble

(* Followed by the persona's prefill. *)
SwapAndWarm(m, n) ==
  \/ /\ Swapped(m, n)
     /\ \/ context' = [Decoded(Empty, 0, Persona) EXCEPT !.last = Persona] /\ NoTrouble
        \/ context' \in Undecoded(Empty, 0, Persona) /\ Trouble
  \/ NotSwapped(m) /\ Trouble

Over(j) == [job EXCEPT ![j] = [Idle EXCEPT !.pc = "over"]]

(* The command: any model of the directory, the layers its caller likes. *)
LoadByCommand(j) ==
  /\ Is(j, {"swap"})
  /\ \E m \in Shelf, n \in Modes :
       /\ SwapModel(m, n)
       /\ spoiled' = (spoiled \/ n # layers)

LoadConfigured(j) ==
  /\ Is(j, {"apply", "autoload"})
  /\ IF engine # None /\ (Is(j, {"autoload"}) \/ path = job[j].path)
       THEN UNCHANGED <<engine, context, path, layers, template, troubles>>
       ELSE SwapAndWarm(job[j].path, OwnLayers)
  /\ UNCHANGED spoiled

Load(j) ==
  /\ At(j, "waiting") /\ lock = None
  /\ LoadByCommand(j) \/ LoadConfigured(j)
  /\ job' = Over(j)
  /\ UNCHANGED <<lock, role, cancel, config, game, latched, target>>

-----------------------------------------------------------------------------
(* The game loop of boot.rs and reload_llm_gpu_layers *)

Poll ==
  /\ target = None /\ latched # game
  /\ target' = game
  /\ UNCHANGED <<lock, manager, cancel, config, game, latched, spoiled, troubles, job>>

Reload ==
  /\ target # None /\ lock = None
  /\ target' = None
  /\ \/ /\ engine = None
        /\ UNCHANGED <<engine, context, path, layers, template, latched, spoiled, troubles>>
     \/ /\ engine # None
        /\ latched' = target
        /\ IF layers = target
             THEN /\ spoiled' = FALSE
                  /\ UNCHANGED <<engine, context, path, layers, template, troubles>>
             ELSE /\ SwapAndWarm(path, target)
                  /\ spoiled' = (engine' = None)
  /\ UNCHANGED <<lock, role, cancel, config, game, job>>

GameLoop == Poll \/ Reload

-----------------------------------------------------------------------------
(* A generation takes the lock. *)

(* evaluate_swap and record_used; the cooldown of the expert may be over. A     *)
(* swap that fails is ignored by the callers, and leaves the role as it was.    *)
SwapFor(j) ==
  \/ /\ role = "Router" /\ job[j].hard
     /\ SwapModel(Expert, OwnLayers)
     /\ role' = IF engine' = None THEN role ELSE "Expert"
  \/ /\ role = "Expert" /\ ~job[j].hard
     /\ SwapModel(config, OwnLayers)
     /\ role' = IF engine' = None THEN role ELSE "Router"
  \/ /\ job[j].hard => role = "Expert"
     /\ UNCHANGED <<manager, troubles>>

MaybeAutoSwap(j) == IF Is(j, Nested) THEN SwapFor(j) ELSE UNCHANGED <<manager, troubles>>

(* Cut to fit: the persona and the question are mandatory. *)
Compiled(p) == IF Fits(p) THEN p ELSE <<p[1], p[Len(p)]>>

Superseded(j) == Is(j, Turns) /\ job[j].gone

(* A turn looks at its session, a budgeted generation enters its first guard,  *)
(* wants a model and compiles its prompt.                                      *)
Enter(j) ==
  /\ At(j, "waiting") /\ Is(j, Generating) /\ lock = None
  /\ lock' = j
  /\ MaybeAutoSwap(j)
  /\ LET told == [job[j] EXCEPT !.id = IF Is(j, Nested) THEN path' ELSE @]
         ends(r) == [told EXCEPT !.pc = "closing", !.out = r] IN
     \/ /\ Superseded(j)
        /\ job' = [job EXCEPT ![j] = ends("cancelled")]
        /\ UNCHANGED cancel
     \/ /\ ~Superseded(j) /\ Is(j, Nested)
        /\ cancel' = FALSE
        /\ job' = [job EXCEPT ![j] =
             IF engine' = None THEN ends("error")
             ELSE [told EXCEPT !.pc = "entered", !.prompt = Compiled(@), !.format = template']]
     \/ /\ ~Superseded(j) /\ ~Is(j, Nested)
        /\ job' = [job EXCEPT ![j] = [told EXCEPT !.pc = "entered"]]
        /\ UNCHANGED cancel
  /\ UNCHANGED world

-----------------------------------------------------------------------------
(* The generation itself *)

Ends(j, r) == [job EXCEPT ![j].pc = "closing", ![j].out = r]

reset_cancel == cancel' = FALSE

(* A picture starts a fresh sequence; a text reuses what the cache holds of it. *)
Start(j) == IF Is(j, {"look"}) THEN 0 ELSE Common(context.last, job[j].prompt)
Cleared(j) == IF Is(j, {"look"}) THEN Empty ELSE Kept(context, Start(j))

Prefill(j) ==
  /\ At(j, "entered")
  /\ reset_cancel
  /\ LET t == job[j].prompt
         tail == SubSeq(t, Start(j) + 1, Len(t)) IN
     \/ /\ engine = None \/ ~Fits(t)
        /\ context' = IF Is(j, {"look"}) THEN [context EXCEPT !.last = <<>>] ELSE context
        /\ job' = Ends(j, "error") /\ NoTrouble
     \/ /\ engine # None /\ Is(j, {"look"})    \* the projector does not load
        /\ context' = [context EXCEPT !.last = <<>>]
        /\ job' = Ends(j, "error") /\ Trouble
     \/ /\ engine # None /\ Fits(t)
        /\ context' = [(IF tail = <<>> THEN Cleared(j) ELSE Decoded(Cleared(j), Start(j), tail))
                         EXCEPT !.last = IF Is(j, {"look"}) THEN <<>> ELSE t]
        /\ job' = [job EXCEPT ![j].pc = IF Is(j, {"decide"}) THEN "finish" ELSE "loop",
                              ![j].past = Len(t),
                              ![j].format = IF Is(j, {"look"}) THEN template ELSE @]
        /\ NoTrouble
     \/ /\ engine # None /\ Fits(t) /\ tail # <<>>
        /\ context' \in Undecoded(Cleared(j), Start(j), tail)
        /\ job' = Ends(j, "error") /\ Trouble
  /\ UNCHANGED <<lock, engine, path, layers, role, template, world>>

Full(j) == job[j].past >= NCtx

(* The top of the loop: the flag, room in the context, one token. *)
Sample(j) ==
  /\ At(j, "loop")
  /\ \/ /\ cancel \/ (Is(j, {"look"}) /\ Full(j))
        /\ job' = [job EXCEPT ![j].pc = "finish"]
        /\ UNCHANGED context
     \/ /\ ~cancel /\ ~(Is(j, {"look"}) /\ Full(j))
        /\ context' = IF Full(j) THEN Pruned(context) ELSE context
        /\ LET past == IF Full(j) THEN job[j].past - Window ELSE job[j].past IN
           \/ job' = [job EXCEPT ![j].pc = "finish", ![j].past = past]
           \/ \E v \in Vocab :
                job' = [job EXCEPT ![j].pc = "token", ![j].past = past, ![j].token = v]
  /\ UNCHANGED <<lock, engine, path, layers, role, template, cancel, world, troubles>>

(* The callback. A stream and the actor's backend look at the flag as well. *)
Refuses(j) == job[j].gone \/ (cancel /\ Is(j, {"chat", "direct"}))

Forward(j) ==
  /\ At(j, "token")
  /\ LET v == <<job[j].token>>
         pushed == IF Is(j, {"look"}) THEN context ELSE [context EXCEPT !.last = @ \o v] IN
     \/ /\ Refuses(j)
        /\ job' = [job EXCEPT ![j].pc = "finish", ![j].token = None]
        /\ UNCHANGED context /\ NoTrouble
     \/ /\ ~Refuses(j)
        /\ context' = Decoded(pushed, job[j].past, v)
        /\ job' = [job EXCEPT ![j].pc = IF Len(job[j].said) + 1 = MaxAnswer THEN "finish" ELSE "loop",
                              ![j].past = @ + 1, ![j].token = None, ![j].said = @ \o v]
        /\ NoTrouble
     \/ /\ ~Refuses(j)
        /\ context' \in Undecoded(pushed, job[j].past, v)
        /\ job' = Ends(j, "error") /\ Trouble
  /\ UNCHANGED <<lock, engine, path, layers, role, template, cancel, world>>

(* After the loop; a decision has none. Mutant: the top of the loop has looked *)
(* already.                                                                   *)
NotAsked(j) == "ok"
Verdict(j) == IF cancel /\ ~Is(j, {"decide"}) THEN "cancelled" ELSE "ok"

Finish(j) ==
  /\ At(j, "finish")
  /\ job' = Ends(j, Verdict(j))
  /\ UNCHANGED <<lock, manager, cancel, world, troubles>>

(* CompletionStream::finish under the lock, finish_streamed_completion after. *)
Stopped(j) == \/ Is(j, {"chat"}) /\ (job[j].gone \/ cancel)
              \/ Superseded(j)

Close(j) ==
  /\ At(j, "closing")
  /\ lock' = None
  /\ job' = [job EXCEPT ![j].pc = "done",
                        ![j].out = IF @ = "ok" /\ Stopped(j) THEN "cancelled" ELSE @]
  /\ UNCHANGED <<manager, cancel, world, troubles>>

(* The caller has its answer, or its error. *)
Return(j) ==
  /\ At(j, "done")
  /\ job' = Over(j)
  /\ UNCHANGED <<lock, manager, cancel, world, troubles>>

-----------------------------------------------------------------------------
(* Meanwhile *)

Running(j) == \/ job[j].pc \in {"loop", "token", "finish"} /\ ~Is(j, {"decide"})
              \/ At(j, "closing") /\ Is(j, {"chat"})

Cancel ==
  /\ Trouble
  /\ cancel' = TRUE
  /\ job' = [j \in Job |-> IF Running(j) THEN [job[j] EXCEPT !.told = TRUE] ELSE job[j]]
  /\ UNCHANGED <<lock, manager, world>>

(* A client disconnects, a newer turn supersedes this one. *)
CallerLeaves(j) ==
  /\ Is(j, {"chat"} \cup Turns) /\ job[j].pc \notin {"done", "over"} /\ ~job[j].gone
  /\ Trouble
  /\ job' = [job EXCEPT ![j].gone = TRUE]
  /\ UNCHANGED <<lock, manager, cancel, world>>

GameFlips ==
  /\ Trouble
  /\ \E g \in Modes \ {game} : game' = g
  /\ UNCHANGED <<lock, manager, cancel, config, latched, target, spoiled, job>>

Serve(j) == ReadConfig(j) \/ Load(j) \/ Enter(j) \/ Prefill(j) \/ Sample(j) \/ Forward(j)
            \/ Finish(j) \/ Close(j) \/ Return(j)

Next == \/ \E j \in Job : Arrive(j) \/ Serve(j) \/ CallerLeaves(j)
        \/ GameLoop \/ Cancel \/ GameFlips

Spec == Init /\ [][Next]_vars

-----------------------------------------------------------------------------
(* A token is sampled from this conversation and nothing else: unless a decode *)
(* has failed on this cache, the cells, the logits and last_tokens agree, and  *)
(* they are the prompt and the answer so far, however much of it was in the    *)
(* cache before, and however often the context was full.                       *)
Reads(j) == At(j, "loop") \/ (At(j, "finish") /\ Is(j, {"decide"}))

ContextIsThePrompt ==
  \A j \in Job : Reads(j) /\ ~context.slipped =>
    LET shown == View(job[j].prompt \o job[j].said) IN
      /\ context.kv = Cells(0, shown) /\ context.logits = context.kv
      /\ ~Is(j, {"look"}) => context.last = shown

(* A generation that was running when it was cancelled is never reported as a  *)
(* success, wherever the flag was set between its prefill and its last check;  *)
(* nor is a stream whose reader had left. And nobody is told "cancelled" for a *)
(* flag that was meant for an earlier request.                                 *)
CancelIsHeard ==
  /\ TypeOK
  /\ \A j \in Job : At(j, "done") =>
       /\ job[j].told \/ (job[j].gone /\ Is(j, {"chat"} \cup Turns)) => job[j].out # "ok"
       /\ job[j].out = "cancelled" => job[j].told \/ job[j].gone

(* What is believed of the engine is true: the record of a success names the   *)
(* model that gave it, whichever swap came before; a prompt compiled under the *)
(* lock has that model's format; and while the game loop has nothing to do the *)
(* engine has the layers it asked for, whoever has loaded a model since.       *)
BeliefsAreTrue ==
  /\ \A j \in Job : At(j, "closing") /\ job[j].out = "ok" =>
       /\ Is(j, Nested) => job[j].id = engine.model
       /\ Is(j, Nested \cup {"look"}) => job[j].format = engine.model
  /\ engine # None /\ latched # None /\ ~spoiled =>
       engine.layers = latched /\ layers = latched
=============================================================================
