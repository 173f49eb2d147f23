---------------------------- MODULE PluginManager ----------------------------
(***************************************************************************)
(* The plugin manager of internal/plugins: one Lua state and one lock per  *)
(* plugin, and many goroutines that want them.                             *)
(*                                                                         *)
(* RunOnStart, RunOnQuit and the hooks of each flow walk over the plugins  *)
(* in the order of their priority.  A walk reads Enabled without the lock, *)
(* then runs the hook under it: it waits for a synchronous hook, and       *)
(* starts a goroutine for an asynchronous one.  Meanwhile the plugins page *)
(* toggles plugins and saves their configuration from the event loop, and  *)
(* a plugin may disable itself in on_start.  plugins.yaml is written after *)
(* the lock has been given back.                                           *)
(***************************************************************************)
EXTENDS Naturals, Sequences, FiniteSets, Positions

CONSTANTS
    Plugin,
    Order,         \* Manager.plugins after LoadFromDir: highest priority first
    Mode,          \* how each plugin has each hook: none, sync or async
    Config,        \* configuration texts
    Unparsable,    \* those that are not YAML
    Event,         \* calls of a flow's hooks: one side, or its history entry
    HookOf,        \* the hook that each of them runs
    RunOnStart,    \* the walk at startup
    RunOnQuit,     \* the walk at the end
    NoValue,       \* no plugin, no configuration
    MaxPresses,    \* bound: the keys that the user presses
    MaxEvents      \* bound: the events that happen

EventHook == {"on_request", "on_response", "on_history_entry"}
Hook      == EventHook \cup {"on_config", "on_start", "on_quit"}

ASSUME PluginAssumption ==
    /\ Order \in Seq(Plugin)
    /\ \A p \in Plugin : \E i \in DOMAIN Order : Order[i] = p
    /\ \A i, j \in DOMAIN Order : Order[i] = Order[j] => i = j
    /\ Mode \in [Plugin -> [Hook -> {"none", "sync", "async"}]]
    /\ \A p \in Plugin, h \in {"on_config", "on_quit"} : Mode[p][h] # "async"
    /\ Unparsable \subseteq Config
    /\ HookOf \in [Event -> EventHook]
    /\ NoValue \notin Config
    /\ RunOnStart # RunOnQuit /\ {RunOnStart, RunOnQuit} \cap Event = {}
    /\ ({RunOnStart, RunOnQuit} \cup Event) \cap (1 .. MaxPresses) = {}
    /\ MaxPresses \in Nat /\ MaxEvents \in Nat

VARIABLES
    enabled,    \* the plugins with Plugin.Enabled
    config,     \* Plugin.ConfigText
    fileOn,     \* the plugins that plugins.yaml enables
    fileConfig, \* the configurations in it
    shown,      \* the plugins that the plugins page shows as enabled
    locked,     \* the plugins whose Plugin.mu is held by a hook call
    calls,      \* hook calls that wait for their plugin's lock
    running,    \* hook calls that are inside a Lua state
    walk,       \* where each walk over the plugins is
    ui,         \* what the event loop is in the middle of
    pressed,    \* how many keys have been pressed
    alive,      \* "up", "quitting" once RunOnQuit is over, or "exited"
    verdict,    \* what the synchronous hooks decided about an event
    applied,    \* the configuration that the last on_config of a plugin read
    steady,     \* for the properties: plugins enabled all along a sync pass
    said,       \* for the properties: what they answered in it
    refusal     \* for the properties: how on_start has answered false

memory  == <<enabled, config, refusal>>
file    == <<fileOn, fileConfig>>
locks   == <<locked, calls, running, applied>>
walks   == <<walk, verdict, steady, said>>
loop    == <<ui, pressed, alive, shown>>
vars    == <<memory, file, locks, walks, loop>>

Walker  == {RunOnStart, RunOnQuit} \cup Event
Press   == 1 .. MaxPresses
Stage   == {"idle", "on_config", "on_start", "on_quit", "sync", "async", "done"}
Walking == Stage \ {"idle", "done"}

\* What a hook may return; "error" stands for an error raised in it.
Stops(h) == CASE h \in {"on_request", "on_response"} -> {"drop", "forward"}
              [] h = "on_history_entry" -> {"skip"}
              [] OTHER -> {}
Answer   == {"nil", "error", "false", "drop", "forward", "skip"}

Call == [plugin : Plugin, hook : Hook, by : Walker \cup Press,
         mode : {"sync", "async"}]
Walk == [stage : Stage, at : 1 .. (Len(Order) + 1), step : {"look", "blocked"}]
UI   == [at : {"idle", "flip", "saveFlip", "setText", "saveText", "blocked",
               "quit"},
         plugin : Plugin \cup {NoValue},
         value : {"on", "off"} \cup Config \cup {NoValue}]

\* The last on_start answered false; an earlier one did; or one did between
\* the two steps of the last switch-on, and none has since.
Refusal  == {"never", "last", "earlier", "overtook"}

IdleUI   == [at |-> "idle", plugin |-> NoValue, value |-> NoValue]
AtRest   == [stage |-> "idle", at |-> 1, step |-> "look"]
Begin(s) == [stage |-> s, at |-> 1, step |-> "look"]
Unasked  == [p \in Plugin |-> "unasked"]

\* New has loaded the plugins, with what plugins.yaml says of each or, after
\* register, the defaults; Init of the app has launched RunOnStart.
Init ==
    /\ enabled \in SUBSET Plugin
    /\ config \in [Plugin -> Config \ Unparsable]
    /\ fileOn = enabled /\ fileConfig = config /\ shown = enabled
    /\ locked = {} /\ calls = {} /\ running = {}
    /\ walk = [w \in Walker |-> IF w = RunOnStart THEN Begin("on_config")
                                                  ELSE AtRest]
    /\ ui = IdleUI /\ pressed = 0 /\ alive = "up"
    /\ verdict = [e \in Event |-> "intercept"]
    /\ applied = [p \in Plugin |-> NoValue]
    /\ steady = [e \in Event |-> {}]
    /\ said = [e \in Event |-> Unasked]
    /\ refusal = [p \in Plugin |-> "never"]
-----------------------------------------------------------------------------
(***************************************************************************)
(* Walks over the plugins.                                                 *)
(***************************************************************************)
HookAt(w) == IF walk[w].stage \in {"sync", "async"} THEN HookOf[w]
                                                    ELSE walk[w].stage

\* RunOnStart runs on_start in either mode; every other walk takes one.
Wants(w, p) ==
    LET mode == Mode[p][HookAt(w)] IN
    IF walk[w].stage \in {"async", "on_start"}
    THEN mode = "async" \/ (walk[w].stage = "on_start" /\ mode = "sync")
    ELSE mode = "sync"

MoveTo(w, at, step) ==
    walk' = [walk EXCEPT ![w] = [stage |-> @.stage, at |-> at, step |-> step]]

Step(w) == MoveTo(w, walk[w].at + 1, "look")

\* The plugins that the walk does not pass over for want of the hook.
Targets(w) == Kept(Order, {i \in DOMAIN Order : Wants(w, Order[i])})

Looking(w) ==
    /\ walk[w].stage \in Walking
    /\ walk[w].step = "look"
    /\ walk[w].at <= Len(Targets(w))

\* if !p.Enabled { continue }
Skip(w) ==
    LET p == Targets(w)[walk[w].at] IN
    /\ Looking(w)
    /\ p \notin enabled
    /\ Step(w)
    /\ UNCHANGED <<memory, file, locks, verdict, steady, said, loop>>

\* A synchronous hook: the walk waits for its result.
CallHook(w) ==
    LET p == Targets(w)[walk[w].at] IN
    /\ Looking(w)
    /\ p \in enabled /\ Mode[p][HookAt(w)] = "sync"
    /\ calls' = calls \cup
                {[plugin |-> p, hook |-> HookAt(w), by |-> w, mode |-> "sync"]}
    /\ MoveTo(w, walk[w].at, "blocked")
    /\ UNCHANGED <<memory, file, locked, running, applied>>
    /\ UNCHANGED <<verdict, steady, said, loop>>

\* An asynchronous hook: a goroutine of its own waits for the lock.
SpawnHook(w) ==
    LET p == Targets(w)[walk[w].at] IN
    /\ Looking(w)
    /\ p \in enabled /\ Mode[p][HookAt(w)] = "async"
    /\ calls' = calls \cup
                {[plugin |-> p, hook |-> HookAt(w), by |-> w, mode |-> "async"]}
    /\ Step(w)
    /\ UNCHANGED <<memory, file, locked, running, applied>>
    /\ UNCHANGED <<verdict, steady, said, loop>>

\* A flow comes to one of its hooks, or to SaveEntry.
Arrive(e) ==
    /\ alive # "exited"
    /\ walk[e].stage = "idle"
    /\ Cardinality({d \in Event : walk[d].stage # "idle"}) < MaxEvents
    /\ walk' = [walk EXCEPT ![e] = Begin("sync")]
    /\ steady' = [steady EXCEPT ![e] = enabled]
    /\ UNCHANGED <<memory, file, locks, verdict, said, loop>>

\* What follows a pass.  Between the two passes of an event are the broker's
\* Hold, HoldResponse or the insertion into the table.  A request that is
\* dropped and an entry that is skipped get no asynchronous hook.
After(w, answer) ==
    CASE walk[w].stage = "on_config" -> "on_start"
      [] walk[w].stage = "sync" ->
           IF HookOf[w] # "on_response" /\ answer \in {"drop", "skip"}
           THEN "done" ELSE "async"
      [] OTHER -> "done"

\* Nor does an entry that is a duplicate or cannot be inserted.
AfterAll(w) ==
    {After(w, "nil")} \cup
    {s \in {"done"} : w \in Event /\ HookOf[w] = "on_history_entry"}

\* Mistake: the end of the list is not noticed.
PassNeverEnds(w) ==
    /\ walk[w].stage \in Walking
    /\ walk[w].at > Len(Targets(w))
    /\ Step(w)
    /\ UNCHANGED <<memory, file, locks, verdict, steady, said, loop>>

PassEnds(w) ==
    /\ walk[w].stage \in Walking
    /\ walk[w].at > Len(Targets(w))
    /\ \E s \in AfterAll(w) : walk' = [walk EXCEPT ![w] = Begin(s)]
    /\ IF w = RunOnQuit THEN ui' = IdleUI /\ alive' = "quitting"
                     ELSE UNCHANGED <<ui, alive>>
    /\ UNCHANGED <<memory, file, locks, verdict, steady, said, pressed, shown>>
-----------------------------------------------------------------------------
(***************************************************************************)
(* Hook calls.                                                             *)
(***************************************************************************)

\* p.mu.Lock().  get_config reads ConfigText under the lock, so an on_config
\* that runs now reads what is there now.
LockAndEnter(c) ==
    /\ c.plugin \notin locked
    /\ locked' = locked \cup {c.plugin}
    /\ calls' = calls \ {c}
    /\ running' = running \cup {c}
    /\ applied' = IF c.hook = "on_config"
                  THEN [applied EXCEPT ![c.plugin] = config[c.plugin]]
                  ELSE applied
    /\ UNCHANGED <<memory, file, walks, loop>>

\* What the hook of a call may return, anew at each call.
Answers(c) ==
    {"nil", "error"} \cup Stops(c.hook)
                     \cup {a \in {"false"} : c.hook = "on_start"}

\* Mistake: the plugin is switched off in memory only.
DisableUnsaved(c, answer) ==
    /\ enabled' = IF c.hook = "on_start" /\ answer = "false"
                  THEN enabled \ {c.plugin} ELSE enabled
    /\ UNCHANGED fileOn

\* disableIfFalse, still under the lock.
DisableIfFalse(c, answer) ==
    IF c.hook = "on_start" /\ answer = "false"
    THEN /\ enabled' = enabled \ {c.plugin}
         /\ fileOn' = fileOn \ {c.plugin}
    ELSE UNCHANGED <<enabled, fileOn>>

Release(c) == locked' = locked \ {c.plugin}

\* A plugin is being switched on: memory says so, plugins.yaml not yet.
SwitchingOn(p) == ui.at = "saveFlip" /\ ui.plugin = p /\ ui.value = "on"

Note(c, answer) ==
    LET now(was) ==
            IF answer = "false"
            THEN IF SwitchingOn(c.plugin) THEN "overtook" ELSE "last"
            ELSE IF was = "last" THEN "earlier" ELSE was
    IN  refusal' = IF c.hook = "on_start"
                   THEN [refusal EXCEPT ![c.plugin] = now(@)] ELSE refusal

\* A plugin that is switched off is not steady in the passes under way.
Narrow ==
    steady' = [e \in Event |-> IF walk[e].stage = "sync"
                               THEN steady[e] \cap enabled' ELSE steady[e]]

\* Mistake: the lock is not given back after an error.
LeaveAloneLocked(c, answer) ==
    /\ c \in running
    /\ c.mode = "async" \/ c.by \in Press
    /\ answer \in Answers(c)
    /\ DisableIfFalse(c, answer) /\ Note(c, answer)
    /\ Narrow
    /\ locked' = IF answer = "error" THEN locked ELSE locked \ {c.plugin}
    /\ running' = running \ {c}
    /\ ui' = IF c.mode = "sync" THEN IdleUI ELSE ui
    /\ UNCHANGED <<config, fileConfig, calls, applied, walk, verdict, said>>
    /\ UNCHANGED <<pressed, alive, shown>>

\* The end of a hook, unless its caller is a walk that waits for it.
LeaveAlone(c, answer) ==
    /\ c \in running
    /\ c.mode = "async" \/ c.by \in Press
    /\ answer \in Answers(c)
    /\ DisableIfFalse(c, answer) /\ Note(c, answer)
    /\ Narrow
    /\ Release(c)
    /\ running' = running \ {c}
    /\ ui' = IF c.mode = "sync" THEN IdleUI ELSE ui
    /\ UNCHANGED <<config, fileConfig, calls, applied, walk, verdict, said>>
    /\ UNCHANGED <<pressed, alive, shown>>

\* Mistake: the first answer ends the pass, whatever it says.
LeaveWalkAtOnce(c, answer) ==
    /\ c \in running
    /\ c.mode = "sync" /\ c.by \in Walker
    /\ answer \in Answers(c)
    /\ DisableIfFalse(c, answer) /\ Note(c, answer)
    /\ Narrow
    /\ Release(c)
    /\ running' = running \ {c}
    /\ walk' = [walk EXCEPT ![c.by] = Begin(After(c.by, answer))]
    /\ verdict' = IF answer \in Stops(c.hook)
                  THEN [verdict EXCEPT ![c.by] = answer] ELSE verdict
    /\ said' = IF c.by \in Event
               THEN [said EXCEPT ![c.by][c.plugin] = answer] ELSE said
    /\ UNCHANGED <<config, fileConfig, calls, applied, loop>>

\* The end of a hook that a walk waits for: the first answer that decides
\* ends the pass; after an error, which is logged, the walk goes on.
LeaveWalk(c, answer) ==
    /\ c \in running
    /\ c.mode = "sync" /\ c.by \in Walker
    /\ answer \in Answers(c)
    /\ DisableIfFalse(c, answer) /\ Note(c, answer)
    /\ Narrow
    /\ Release(c)
    /\ running' = running \ {c}
    /\ IF answer \in Stops(c.hook)
       THEN /\ walk' = [walk EXCEPT ![c.by] = Begin(After(c.by, answer))]
            /\ verdict' = [verdict EXCEPT ![c.by] = answer]
       ELSE Step(c.by) /\ UNCHANGED verdict
    /\ said' = IF c.by \in Event
               THEN [said EXCEPT ![c.by][c.plugin] = answer] ELSE said
    /\ UNCHANGED <<config, fileConfig, calls, applied, loop>>
-----------------------------------------------------------------------------
(***************************************************************************)
(* The event loop: the plugins page, and the end of the program.           *)
(***************************************************************************)

\* The event loop takes a key.
Take(step, p, value) ==
    /\ ui = IdleUI /\ alive # "exited"
    /\ pressed < MaxPresses
    /\ pressed' = pressed + 1
    /\ ui' = [at |-> step, plugin |-> p, value |-> value]
    /\ UNCHANGED <<memory, file, locks, alive>>

\* The page calls TogglePlugin, and then shows the opposite of what it showed,
\* whatever the plugin has done meanwhile; only the page reads shown.
PressToggle(p) ==
    /\ Take("flip", p, NoValue)
    /\ shown' = IF p \in shown THEN shown \ {p} ELSE shown \cup {p}
    /\ UNCHANGED walks

\* The page offers the text area for a plugin with on_config only.
PressSave(p, text) ==
    /\ Mode[p]["on_config"] = "sync"
    /\ Take("setText", p, text)
    /\ UNCHANGED <<walks, shown>>

\* TogglePlugin: found.Enabled = !found.Enabled under the lock.
Flip ==
    LET p == ui.plugin IN
    /\ ui.at = "flip"
    /\ p \notin locked
    /\ enabled' = IF p \in enabled THEN enabled \ {p} ELSE enabled \cup {p}
    /\ ui' = [at |-> "saveFlip", plugin |-> p,
              value |-> IF p \in enabled THEN "off" ELSE "on"]
    /\ refusal' = [refusal EXCEPT ![p] = IF @ = "overtook" THEN "earlier" ELSE @]
    /\ Narrow
    /\ UNCHANGED <<config, file, locks, walk, verdict, said>>
    /\ UNCHANGED <<pressed, alive, shown>>

\* Mistake: a plugin that is switched on is not started.
SaveFlipOnly ==
    /\ ui.at = "saveFlip"
    /\ fileOn' = IF ui.value = "on" THEN fileOn \cup {ui.plugin}
                                    ELSE fileOn \ {ui.plugin}
    /\ ui' = IdleUI
    /\ UNCHANGED <<memory, fileConfig, locks, walks, pressed, alive, shown>>

\* setEnabled, without the lock, of what Flip has decided; then on_start, for
\* which the event loop waits if it is synchronous.
SaveFlip ==
    LET p     == ui.plugin
        start == [plugin |-> p, hook |-> "on_start", by |-> pressed,
                  mode |-> Mode[p]["on_start"]]
        runs  == ui.value = "on" /\ start.mode # "none"
    IN
    /\ ui.at = "saveFlip"
    /\ fileOn' = IF ui.value = "on" THEN fileOn \cup {p} ELSE fileOn \ {p}
    /\ calls' = IF runs THEN calls \cup {start} ELSE calls
    /\ ui' = IF runs /\ start.mode = "sync"
             THEN [ui EXCEPT !.at = "blocked"] ELSE IdleUI
    /\ UNCHANGED <<memory, fileConfig, locked, running, applied, walks>>
    /\ UNCHANGED <<pressed, alive, shown>>

\* SaveConfig: found.ConfigText = configText under the lock.
SetText ==
    /\ ui.at = "setText"
    /\ ui.plugin \notin locked
    /\ config' = [config EXCEPT ![ui.plugin] = ui.value]
    /\ ui' = [ui EXCEPT !.at = "saveText"]
    /\ UNCHANGED <<enabled, refusal, file, locks, walks, pressed, alive, shown>>

\* Mistake: a plugin that is off is not told of its new configuration.
SaveTextIfEnabled ==
    LET p == ui.plugin IN
    /\ ui.at = "saveText"
    /\ fileConfig' = IF ui.value \in Unparsable THEN fileConfig
                     ELSE [fileConfig EXCEPT ![p] = ui.value]
    /\ IF p \in enabled
       THEN /\ calls' = calls \cup {[plugin |-> p, hook |-> "on_config",
                                    by |-> pressed, mode |-> "sync"]}
            /\ ui' = [ui EXCEPT !.at = "blocked"]
       ELSE ui' = IdleUI /\ UNCHANGED calls
    /\ UNCHANGED <<memory, fileOn, locked, running, applied, walks>>
    /\ UNCHANGED <<pressed, alive, shown>>

\* setConfig, without the lock: what is not YAML is not written.  Then
\* on_config, whether the plugin is enabled or not.
SaveText ==
    LET p == ui.plugin IN
    /\ ui.at = "saveText"
    /\ fileConfig' = IF ui.value \in Unparsable THEN fileConfig
                     ELSE [fileConfig EXCEPT ![p] = ui.value]
    /\ calls' = calls \cup {[plugin |-> p, hook |-> "on_config", by |-> pressed,
                             mode |-> "sync"]}
    /\ ui' = [ui EXCEPT !.at = "blocked"]
    /\ UNCHANGED <<memory, fileOn, locked, running, applied, walks>>
    /\ UNCHANGED <<pressed, alive, shown>>

\* The quit key, or the message of a plugin that calls quit(): RunOnQuit runs
\* in the event loop.  Until tea.Quit comes back as a message another key or
\* message may be handled, and RunOnQuit run again.
PressQuit ==
    /\ Take("quit", NoValue, NoValue)
    /\ walk' = [walk EXCEPT ![RunOnQuit] = Begin("on_quit")]
    /\ UNCHANGED <<verdict, steady, said, shown>>

\* The end of the program is the end of every goroutine, wherever it is.
Exit ==
    /\ ui = IdleUI
    /\ alive = "quitting"
    /\ alive' = "exited"
    /\ walk' = [w \in Walker |-> AtRest]
    /\ calls' = {} /\ running' = {}
    /\ UNCHANGED <<memory, file, locked, applied, verdict, steady, said>>
    /\ UNCHANGED <<ui, pressed, shown>>
-----------------------------------------------------------------------------
(***************************************************************************)
(* Specification.                                                          *)
(***************************************************************************)
Page ==
    \/ \E p \in Plugin : PressToggle(p)
    \/ \E p \in Plugin, text \in Config : PressSave(p, text)
    \/ PressQuit
    \/ Flip \/ SaveFlip \/ SetText \/ SaveText
    \/ Exit

Goroutine(w) == Skip(w) \/ CallHook(w) \/ SpawnHook(w) \/ PassEnds(w)

HookCall(c) ==
    \/ c \in calls /\ LockAndEnter(c)
    \/ \E answer \in Answer : LeaveAlone(c, answer) \/ LeaveWalk(c, answer)

HookCallOf(p) == \E c \in calls \cup running : c.plugin = p /\ HookCall(c)

\* Nothing is left to do but to wait for a key or a flow.
Settled ==
    /\ ui = IdleUI /\ calls = {} /\ running = {}
    /\ \A w \in Walker : walk[w].stage \notin Walking

Rest == Settled /\ UNCHANGED vars

Next ==
    \/ Page
    \/ \E e \in Event : Arrive(e)
    \/ \E w \in Walker : Goroutine(w)
    \/ \E p \in Plugin : HookCallOf(p)
    \/ Rest

Spec == Init /\ [][Next]_vars

\* The scheduler runs something that can run, a hook ends (its requests and
\* commands have timeouts of 30 seconds), and the event loop goes on.  This is
\* less than fairness to each goroutine and enough, because no goroutine has
\* endless work.  Nothing is assumed of the keys and of the flows.
Program ==
    \/ Flip \/ SaveFlip \/ SetText \/ SaveText
    \/ \E w \in Walker : Goroutine(w)
    \/ \E p \in Plugin : HookCallOf(p)

Fairness == WF_vars(Program)

FairSpec == Spec /\ Fairness
-----------------------------------------------------------------------------
(***************************************************************************)
(* Properties.                                                             *)
(***************************************************************************)
TypeOK ==
    /\ enabled \subseteq Plugin /\ fileOn \subseteq Plugin /\ shown \subseteq Plugin
    /\ config \in [Plugin -> Config] /\ fileConfig \in [Plugin -> Config]
    /\ locked \subseteq Plugin
    /\ calls \subseteq Call /\ running \subseteq Call
    /\ walk \in [Walker -> Walk]
    /\ ui \in UI
    /\ pressed \in 0 .. MaxPresses /\ alive \in {"up", "quitting", "exited"}
    /\ verdict \in [Event -> {"intercept", "drop", "forward", "skip"}]
    /\ applied \in [Plugin -> Config \cup {NoValue}]
    /\ steady \in [Event -> SUBSET Plugin]
    /\ said \in [Event -> [Plugin -> Answer \cup {"unasked"}]]
    /\ refusal \in [Plugin -> Refusal]

\* A gopher-lua state is not safe for concurrent use: no two hooks of one
\* plugin run at the same time, whoever calls them.
LuaExclusive ==
    \A c, d \in running : c.plugin = d.plugin => c = d

\* No toggle or save is under way, RunOnStart is over, and no on_start or
\* on_config is waiting or running.
Calm ==
    /\ ui = IdleUI
    /\ walk[RunOnStart].stage = "done"
    /\ \A c \in calls \cup running : c.hook \notin {"on_start", "on_config"}

\* Whatever toggles, saves and plugins that disable themselves have done to
\* each other, plugins.yaml then says what the program has in memory, but for
\* a configuration that is not YAML, and for a plugin that was switched on
\* while an earlier on_start of it was about to answer false: TogglePlugin
\* writes its part of the file without the lock, and undoes what that wrote.
PluginsFileAgrees ==
    Calm => \A p \in Plugin :
              /\ \/ p \in fileOn <=> p \in enabled
                 \/ p \in fileOn /\ refusal[p] = "overtook"
              /\ fileConfig[p] = config[p] \/ config[p] \in Unparsable

\* A plugin whose last on_start answered false is then off, in memory and in
\* plugins.yaml, however often it was switched on; and the plugins page shows
\* what holds of every plugin none of whose on_start ever answered false.
SelfDisabledStaysOff ==
    Calm => \A p \in Plugin :
              /\ refusal[p] = "last" => p \notin enabled \cup fileOn
              /\ refusal[p] = "never" => (p \in enabled <=> p \in shown)

\* What a plugin has taken over in on_config is its present configuration,
\* also if it was off while that was saved.
ConfigApplied ==
    Calm => \A p \in Plugin : applied[p] \in {config[p], NoValue}

\* The verdict on an event is the answer of the first plugin that decides, by
\* priority: every plugin before it that had the hook and was enabled all along
\* has been asked, and has not decided; and so have all, if none decides.
VerdictByPriority ==
    \A e \in Event :
        LET deciding(p) == said[e][p] \in Stops(HookOf[e])
            heard(p)    == p \in steady[e] /\ Mode[p][HookOf[e]] = "sync"
                             => said[e][p] # "unasked"
        IN  walk[e].stage \in {"async", "done"} =>
              IF verdict[e] = "intercept"
              THEN \A p \in Plugin : heard(p) /\ ~deciding(p)
              ELSE \E i \in DOMAIN Order :
                     /\ said[e][Order[i]] = verdict[e]
                     /\ \A j \in 1 .. (i - 1) : heard(Order[j]) /\ ~deciding(Order[j])

\* No walk, hook or key is stuck for ever on the lock of a plugin.
HooksSettle == []<>Settled

\* docs/plugins.md on on_start: "Once at startup, after `on_config`", and on
\* on_config: "called once at startup (before `on_start`)".
OnStartAfterOnConfig ==
    \A c \in running :
        c.hook = "on_start" /\ Mode[c.plugin]["on_config"] = "sync"
            => applied[c.plugin] # NoValue
=============================================================================
