------------------------- MODULE PluginManagerProofs -------------------------
(***************************************************************************)
(* For any plugins, hooks, events and keys: no two goroutines are in one   *)
(* Lua state; plugins.yaml agrees with memory, and what plugins and page   *)
(* are told with both, whenever it is calm; the verdict on an event is     *)
(* that of the first plugin to decide; and the state has its type.         *)
(***************************************************************************)
EXTENDS PluginManager, ListFacts, TLAPS

\* A hook runs under the lock of its plugin.
Locked == LuaExclusive /\ \A c \in running : c.plugin \in locked

Pending == calls \cup running

\* A call for which the event loop waits: it is in the middle of a key, there
\* is one such call at most, and it is not called again.
OfUI(c) == c.mode = "sync" /\ c.by \in Press

UIWaits ==
    /\ \A c \in Pending : OfUI(c) => ui.at = "blocked"
    /\ \A c, d \in Pending : OfUI(c) /\ OfUI(d) => c = d
    /\ \A c \in running : OfUI(c) => c \notin calls

\* What the event loop is about to write is what Flip and SetText have put in
\* memory, unless an on_start has answered false since.
Toggling ==
    /\ ui.at \in {"flip", "saveFlip"} => ui.plugin \in Plugin
    /\ ui.at = "saveFlip" =>
        \/ ui.value = "off" /\ ui.plugin \notin enabled
        \/ ui.value = "on" /\ (ui.plugin \in enabled \/ refusal[ui.plugin] = "overtook")

Saving ==
    /\ ui.at \in {"setText", "saveText"} => ui.plugin \in Plugin /\ ui.value \in Config
    /\ ui.at = "saveText" => config[ui.plugin] = ui.value

Started ==
    \A c \in Pending : c.hook = "on_start" => Mode[c.plugin]["on_start"] # "none"

\* After the end of the program nothing is left of it.
Dead ==
    alive = "exited" =>
        /\ calls = {} /\ running = {} /\ ui = IdleUI
        /\ walk = [w \in Walker |-> AtRest]

\* Only what has an on_start answers false in it.
Refused ==
    /\ refusal \in [Plugin -> Refusal]
    /\ \A p \in Plugin : refusal[p] # "never" => Mode[p]["on_start"] # "none"

\* Where file and memory differ, a toggle is about to put it right, or has
\* written over what an answer of false wrote before it.
EnabledSaved ==
    \A p \in Plugin :
        \/ p \in enabled <=> p \in fileOn
        \/ ui.at = "saveFlip" /\ ui.plugin = p
        \/ p \in fileOn /\ refusal[p] = "overtook"

ConfigSaved ==
    \A p \in Plugin :
        \/ fileConfig[p] = config[p]
        \/ config[p] \in Unparsable
        \/ ui.at = "saveText" /\ ui.plugin = p

ConfigTyped ==
    config \in [Plugin -> Config] /\ fileConfig \in [Plugin -> Config]

\* The event loop waits for RunOnQuit.
WalkTyped ==
    walk \in [Walker -> [stage : Stage, at : Nat, step : {"look", "blocked"}]]

Quitting ==
    /\ walk[RunOnQuit].stage \in {"idle", "on_quit", "done"}
    /\ walk[RunOnQuit].stage = "on_quit" => ui.at = "quit"

FileInv ==
    /\ WalkTyped /\ Quitting
    /\ ui \in UI /\ ConfigTyped
    /\ UIWaits /\ Toggling /\ Saving /\ Started /\ Dead
    /\ EnabledSaved /\ ConfigSaved /\ Refused
-----------------------------------------------------------------------------
LEMMA LockedStep == Locked /\ [Next]_vars => Locked'
<1>. SUFFICES ASSUME Locked, [Next]_vars PROVE Locked'
  OBVIOUS
<1>. USE DEF Locked, LuaExclusive, memory, file, locks, walks, loop
<1>1. ASSUME NEW c \in calls, LockAndEnter(c) PROVE Locked'
  BY <1>1 DEF LockAndEnter
<1>2. ASSUME NEW c, NEW answer, LeaveAlone(c, answer) \/ LeaveWalk(c, answer)
      PROVE  Locked'
  BY <1>2 DEF LeaveAlone, LeaveWalk, Release
<1>3. CASE Exit
  BY <1>3 DEF Exit
<1>4. CASE UNCHANGED <<locked, running>>
  BY <1>4
<1>5. ASSUME Page PROVE Locked'
  <2>1. Page => Exit \/ UNCHANGED <<locked, running>>
    BY DEF Page, PressToggle, PressSave, PressQuit, Take, Flip, SaveFlip, SetText, SaveText
  <2>. QED
    BY <1>5, <2>1, <1>3, <1>4
<1>6. ASSUME NEW w, Goroutine(w) \/ Arrive(w) PROVE Locked'
  <2>1. UNCHANGED <<locked, running>>
    BY <1>6 DEF Goroutine, Skip, CallHook, SpawnHook, PassEnds, Arrive
  <2>. QED
    BY <2>1, <1>4
<1>7. ASSUME NEW p \in Plugin, HookCallOf(p) PROVE Locked'
  BY <1>7, <1>1, <1>2 DEF HookCallOf, HookCall
<1>8. CASE UNCHANGED vars
  BY <1>8, <1>4 DEF vars
<1>. QED
  BY <1>5, <1>6, <1>7, <1>8 DEF Next, Rest

\* Two hooks of one plugin never run at the same time, whoever calls them: the
\* lock of Plugin.mu around every callHook.
THEOREM LuaExclusiveCorrect == Spec => []LuaExclusive
<1>1. Init => Locked
  BY DEF Init, Locked, LuaExclusive
<1>. QED
  BY <1>1, LockedStep, PTL DEF Spec, Locked
-----------------------------------------------------------------------------
LEMMA FileInvInit == Init => FileInv
  BY PluginAssumption
  DEF Init, FileInv, ConfigTyped, UIWaits, Toggling, Saving, Started, Dead, Pending,
      EnabledSaved, ConfigSaved, UI, IdleUI, WalkTyped, Quitting, Walker, AtRest,
      Begin, Stage, Walking, Refused, Refusal

\* What a step of a walk does to it.
LEMMA WalkMoves ==
  ASSUME WalkTyped, Quitting, NEW w \in Walker, Goroutine(w)
  PROVE  /\ walk[w].stage \in Walking
         /\ WalkTyped'
         /\ \/ PassEnds(w) /\ w = RunOnQuit /\ walk'[RunOnQuit].stage = "done"
            \/ Quitting' /\ UNCHANGED <<ui, alive>>
<1>. USE PluginAssumption DEF WalkTyped
<1>1. RunOnQuit \in Walker
  BY DEF Walker
<1>2. ASSUME Step(w) PROVE WalkTyped' /\ walk'[RunOnQuit].stage = walk[RunOnQuit].stage
  BY <1>1, <1>2 DEF Step, MoveTo
<1>3. ASSUME MoveTo(w, walk[w].at, "blocked")
      PROVE  WalkTyped' /\ walk'[RunOnQuit].stage = walk[RunOnQuit].stage
  BY <1>1, <1>3 DEF MoveTo
<1>4. CASE Skip(w)
  BY <1>2, <1>4 DEF Skip, Looking, Quitting, loop
<1>5. CASE CallHook(w)
  BY <1>3, <1>5 DEF CallHook, Looking, Quitting, loop
<1>6. CASE SpawnHook(w)
  BY <1>2, <1>6 DEF SpawnHook, Looking, Quitting, loop
<1>7. CASE PassEnds(w)
  <2>1. PICK s \in AfterAll(w) : walk' = [walk EXCEPT ![w] = Begin(s)]
    BY <1>7 DEF PassEnds
  <2>2. s \in Stage
    BY DEF AfterAll, After, Stage
  <2>3. Begin(s) \in [stage : Stage, at : Nat, step : {"look", "blocked"}]
    BY <2>2 DEF Begin
  <2>4. WalkTyped'
    BY <2>1, <2>3
  <2>5. CASE w # RunOnQuit
    BY <1>1, <1>7, <2>1, <2>4, <2>5 DEF PassEnds, Quitting
  <2>6. CASE w = RunOnQuit
    <3>1. s = "done"
      BY <2>6, <1>7 DEF AfterAll, After, Quitting, PassEnds, Walking
    <3>2. walk'[RunOnQuit].stage = "done"
      BY <1>1, <2>1, <2>6, <3>1 DEF Begin
    <3>. QED
      BY <1>7, <2>4, <2>6, <3>2 DEF PassEnds
  <2>. QED
    BY <2>5, <2>6
<1>. QED
  BY <1>4, <1>5, <1>6, <1>7 DEF Goroutine

\* A step that adds no call of the event loop and no on_start, and leaves
\* memory, file and event loop alone, disturbs nothing.
LEMMA OtherCall ==
  ASSUME FileInv, alive # "exited", WalkTyped', Quitting', calls \subseteq calls',
         \A c \in calls' \ calls :
             ~OfUI(c) /\ (c.hook = "on_start" => Mode[c.plugin]["on_start"] # "none"),
         enabled' = enabled, config' = config, refusal' = refusal, fileOn' = fileOn,
         fileConfig' = fileConfig, running' = running, ui' = ui, alive' = alive
  PROVE  FileInv'
<1>. USE DEF FileInv
<1>1. UIWaits' /\ Started' /\ EnabledSaved'
  BY DEF UIWaits, Started, EnabledSaved, Pending, OfUI
<1>. QED
  BY <1>1 DEF ConfigTyped, Toggling, Saving, Dead, ConfigSaved, Refused

LEMMA WalkStep ==
  ASSUME FileInv, NEW w \in Walker, Goroutine(w)
  PROVE  FileInv'
<1>. USE DEF memory, file, locks, walks, loop
<1>0. WalkTyped /\ Quitting
  BY DEF FileInv
<1>1. alive # "exited"
  BY <1>0, WalkMoves DEF FileInv, Dead, Walking, AtRest
<1>2. CASE PassEnds(w) /\ w = RunOnQuit
  <2>1. WalkTyped' /\ ui.at = "quit"
    BY <1>0, <1>2, WalkMoves DEF Quitting, Walking, PassEnds
  <2>2. /\ ui' = IdleUI /\ alive' = "quitting"
        /\ UNCHANGED <<enabled, config, refusal, fileOn>>
        /\ fileConfig' = fileConfig /\ calls' = calls /\ running' = running
    BY <1>2 DEF PassEnds
  <2>3. walk'[RunOnQuit].stage = "done"
    BY <1>0, <2>1, <2>2, WalkMoves DEF IdleUI
  <2>4. UIWaits' /\ EnabledSaved' /\ ConfigSaved' /\ Refused'
    BY <1>1, <2>1, <2>2 DEF FileInv, UIWaits, EnabledSaved, ConfigSaved, Refused, Pending, OfUI
  <2>. QED
    BY <2>1, <2>2, <2>3, <2>4
    DEF FileInv, ConfigTyped, Toggling, Saving, Started, Dead, Pending, Quitting, UI, IdleUI
<1>3. CASE ~(PassEnds(w) /\ w = RunOnQuit)
  <2>1. WalkTyped' /\ Quitting' /\ UNCHANGED <<ui, alive>>
    BY <1>0, <1>3, WalkMoves
  <2>2. ASSUME NEW p, NEW h, NEW m \in {"sync", "async"}
        PROVE  ~OfUI([plugin |-> p, hook |-> h, by |-> w, mode |-> m])
    BY PluginAssumption DEF OfUI, Press, Walker
  <2>3. CASE CallHook(w)
    <3>. DEFINE p == Targets(w)[walk[w].at]
                c == [plugin |-> p, hook |-> HookAt(w), by |-> w, mode |-> "sync"]
    <3>1. /\ calls' = calls \cup {c}
          /\ UNCHANGED <<enabled, config, refusal, fileOn>>
          /\ fileConfig' = fileConfig /\ running' = running
      BY <2>3 DEF CallHook
    <3>2. c.hook = "on_start" => Mode[c.plugin]["on_start"] # "none"
      BY <2>3 DEF CallHook
    <3>3. ~OfUI(c)
      BY <2>2
    <3>. HIDE DEF c
    <3>4. /\ calls \subseteq calls'
          /\ \A d \in calls' \ calls :
               ~OfUI(d) /\ (d.hook = "on_start" => Mode[d.plugin]["on_start"] # "none")
      BY <3>1, <3>2, <3>3
    <3>5. ui' = ui /\ alive' = alive /\ WalkTyped' /\ Quitting'
      BY <2>1
    <3>. QED
      BY <1>1, <3>1, <3>4, <3>5, OtherCall
  <2>4. CASE SpawnHook(w)
    <3>. DEFINE p == Targets(w)[walk[w].at]
                c == [plugin |-> p, hook |-> HookAt(w), by |-> w, mode |-> "async"]
    <3>1. /\ calls' = calls \cup {c}
          /\ UNCHANGED <<enabled, config, refusal, fileOn>>
          /\ fileConfig' = fileConfig /\ running' = running
      BY <2>4 DEF SpawnHook
    <3>2. c.hook = "on_start" => Mode[c.plugin]["on_start"] # "none"
      BY <2>4 DEF SpawnHook
    <3>3. ~OfUI(c)
      BY <2>2
    <3>. HIDE DEF c
    <3>4. /\ calls \subseteq calls'
          /\ \A d \in calls' \ calls :
               ~OfUI(d) /\ (d.hook = "on_start" => Mode[d.plugin]["on_start"] # "none")
      BY <3>1, <3>2, <3>3
    <3>5. ui' = ui /\ alive' = alive /\ WalkTyped' /\ Quitting'
      BY <2>1
    <3>. QED
      BY <1>1, <3>1, <3>4, <3>5, OtherCall
  <2>5. CASE Skip(w) \/ PassEnds(w)
    <3>1. /\ calls' = calls
          /\ UNCHANGED <<enabled, config, refusal, fileOn>>
          /\ fileConfig' = fileConfig /\ running' = running
      BY <2>5 DEF Skip, PassEnds
    <3>2. ui' = ui /\ alive' = alive /\ WalkTyped' /\ Quitting'
      BY <2>1
    <3>. QED
      BY <1>1, <3>1, <3>2, OtherCall
  <2>. QED
    BY <2>3, <2>4, <2>5 DEF Goroutine
<1>. QED
  BY <1>2, <1>3

LEMMA EnterStep ==
  ASSUME FileInv, NEW c \in calls, LockAndEnter(c)
  PROVE  FileInv'
<1>. USE DEF FileInv
<1>1. /\ calls' = calls \ {c} /\ running' = running \cup {c} /\ Pending' = Pending
      /\ UNCHANGED <<enabled, config, refusal, fileOn>>
      /\ fileConfig' = fileConfig /\ ui' = ui /\ alive' = alive /\ walk' = walk
  BY DEF LockAndEnter, memory, file, walks, loop, Pending
<1>2. UIWaits'
  BY <1>1 DEF UIWaits, OfUI, Pending
<1>3. Dead'
  BY <1>1 DEF Dead
<1>. QED
  BY <1>1, <1>2, <1>3
  DEF ConfigTyped, Toggling, Saving, Started, EnabledSaved, ConfigSaved, Refused,
      WalkTyped, Quitting

\* What the end of a hook leaves of how on_start has answered.
LEMMA Noted ==
  ASSUME refusal \in [Plugin -> Refusal], NEW c, NEW answer, Note(c, answer)
  PROVE  /\ refusal' \in [Plugin -> Refusal]
         /\ \A p \in Plugin :
              refusal'[p] =
                IF c.hook # "on_start" \/ p # c.plugin THEN refusal[p]
                ELSE IF answer = "false"
                     THEN IF SwitchingOn(p) THEN "overtook" ELSE "last"
                     ELSE IF refusal[p] = "last" THEN "earlier" ELSE refusal[p]
<1>1. CASE c.hook # "on_start"
  BY <1>1 DEF Note
<1>2. CASE c.hook = "on_start"
  <2>. DEFINE new == IF answer = "false"
                     THEN IF SwitchingOn(c.plugin) THEN "overtook" ELSE "last"
                     ELSE IF refusal[c.plugin] = "last" THEN "earlier"
                                                        ELSE refusal[c.plugin]
  <2>1. refusal' = [refusal EXCEPT ![c.plugin] = new]
    BY <1>2 DEF Note
  <2>2. c.plugin \in Plugin => new \in Refusal
    BY DEF Refusal
  <2>3. refusal' \in [Plugin -> Refusal]
    BY <2>1, <2>2
  <2>4. \A p \in Plugin : refusal'[p] = IF p = c.plugin THEN new ELSE refusal[p]
    BY <2>1
  <2>. QED
    BY <1>2, <2>3, <2>4
<1>. QED
  BY <1>1, <1>2

\* The end of a hook: a plugin that answers false is off in memory and in the
\* file, unless a toggle is about to write that it is on.
LEMMA Disabling ==
  ASSUME FileInv, NEW c \in running, NEW answer, DisableIfFalse(c, answer),
         Note(c, answer), running' = running \ {c}, calls' = calls,
         ui' = ui \/ (ui.at = "blocked" /\ ui' = IdleUI)
  PROVE  EnabledSaved' /\ Toggling' /\ Started' /\ Refused'
<1>. USE DEF FileInv
<1>1. Started'
  BY DEF Started, Pending
<1>2. (ui'.at \in {"flip", "saveFlip"} \/ ui.at \in {"flip", "saveFlip"}) => ui' = ui
  BY DEF IdleUI
<1>3. c.hook = "on_start" => Mode[c.plugin]["on_start"] # "none"
  BY DEF Started, Pending
<1>4. /\ refusal' \in [Plugin -> Refusal]
      /\ \A p \in Plugin :
           refusal'[p] =
             IF c.hook # "on_start" \/ p # c.plugin THEN refusal[p]
             ELSE IF answer = "false"
                  THEN IF SwitchingOn(p) THEN "overtook" ELSE "last"
                  ELSE IF refusal[p] = "last" THEN "earlier" ELSE refusal[p]
  BY Noted DEF Refused
<1>5. Refused'
  BY <1>3, <1>4 DEF Refused
<1>6. CASE c.hook = "on_start" /\ answer = "false"
  <2>1. enabled' = enabled \ {c.plugin} /\ fileOn' = fileOn \ {c.plugin}
    BY <1>6 DEF DisableIfFalse
  <2>2. Toggling'
    BY <1>2, <1>4, <1>6, <2>1 DEF Toggling, SwitchingOn
  <2>3. EnabledSaved'
    BY <1>2, <1>4, <1>6, <2>1 DEF EnabledSaved
  <2>. QED
    BY <1>1, <1>5, <2>2, <2>3
<1>7. CASE ~(c.hook = "on_start" /\ answer = "false")
  <2>1. enabled' = enabled /\ fileOn' = fileOn
    BY <1>7 DEF DisableIfFalse
  <2>2. Toggling'
    BY <1>2, <1>4, <1>7, <2>1 DEF Toggling
  <2>3. EnabledSaved'
    BY <1>2, <1>4, <1>7, <2>1 DEF EnabledSaved
  <2>. QED
    BY <1>1, <1>5, <2>2, <2>3
<1>. QED
  BY <1>6, <1>7

LEMMA LeaveStep ==
  ASSUME FileInv, NEW c, NEW answer, LeaveAlone(c, answer) \/ LeaveWalk(c, answer)
  PROVE  FileInv'
<1>. USE DEF memory, file, locks, walks, loop
<1>1. /\ c \in running /\ DisableIfFalse(c, answer) /\ Note(c, answer)
      /\ running' = running \ {c} /\ calls' = calls
      /\ config' = config /\ fileConfig' = fileConfig /\ alive' = alive
  BY DEF LeaveAlone, LeaveWalk
<1>2. alive # "exited"
  BY <1>1 DEF FileInv, Dead
<1>3. WalkTyped' /\ walk'[RunOnQuit].stage \in {walk[RunOnQuit].stage, "done"}
  <2>1. CASE LeaveAlone(c, answer)
    BY <2>1 DEF LeaveAlone, FileInv, WalkTyped
  <2>2. CASE LeaveWalk(c, answer) /\ answer \in Stops(c.hook)
    <3>1. After(c.by, answer) \in Stage
      BY DEF After, Stage
    <3>2. Begin(After(c.by, answer)) \in [stage : Stage, at : Nat, step : {"look", "blocked"}]
      BY <3>1 DEF Begin
    <3>3. walk' = [walk EXCEPT ![c.by] = Begin(After(c.by, answer))]
      BY <2>2 DEF LeaveWalk
    <3>4. c.by = RunOnQuit => After(c.by, answer) = "done"
      BY DEF After, FileInv, Quitting
    <3>. QED
      BY <3>2, <3>3, <3>4, PluginAssumption DEF FileInv, WalkTyped, Begin, Walker
  <2>3. CASE LeaveWalk(c, answer) /\ answer \notin Stops(c.hook)
    <3>1. c.by \in Walker /\ MoveTo(c.by, walk[c.by].at + 1, "look")
      BY <2>3 DEF LeaveWalk, Step
    <3>2. walk[c.by] \in [stage : Stage, at : Nat, step : {"look", "blocked"}]
      BY <3>1 DEF FileInv, WalkTyped
    <3>. DEFINE next == [stage |-> walk[c.by].stage, at |-> walk[c.by].at + 1, step |-> "look"]
    <3>3. next \in [stage : Stage, at : Nat, step : {"look", "blocked"}]
      BY <3>2
    <3>4. walk' = [walk EXCEPT ![c.by] = next]
      BY <3>1 DEF MoveTo
    <3>. QED
      BY <3>1, <3>3, <3>4, PluginAssumption DEF FileInv, WalkTyped, Walker
  <2>. QED
    BY <2>1, <2>2, <2>3
<1>4. \/ ui' = ui /\ ~OfUI(c)
      \/ ui.at = "blocked" /\ ui' = IdleUI /\ OfUI(c)
  <2>1. CASE LeaveAlone(c, answer)
    BY <1>1, <2>1 DEF LeaveAlone, FileInv, UIWaits, OfUI, Pending
  <2>2. CASE LeaveWalk(c, answer)
    BY <2>2, PluginAssumption DEF LeaveWalk, OfUI, Walker, Press
  <2>. QED
    BY <2>1, <2>2
<1>5. EnabledSaved' /\ Toggling' /\ Started' /\ Refused'
  BY <1>1, <1>4, Disabling
<1>6. UIWaits'
  BY <1>1, <1>4 DEF FileInv, UIWaits, Pending, OfUI
<1>7. ui' \in UI /\ Saving' /\ ConfigSaved' /\ ConfigTyped'
  BY <1>1, <1>4 DEF FileInv, UI, IdleUI, Saving, ConfigSaved, ConfigTyped
<1>8. Quitting' /\ Dead'
  BY <1>1, <1>2, <1>3, <1>4 DEF FileInv, Quitting, Dead
<1>. QED
  BY <1>3, <1>5, <1>6, <1>7, <1>8 DEF FileInv

\* The event loop between keys and locks.
LEMMA PageStep ==
  ASSUME FileInv, Page
  PROVE  FileInv'
<1>. USE PluginAssumption DEF FileInv, memory, file, locks, walks, loop
<1>1. ASSUME NEW p \in Plugin, PressToggle(p) PROVE FileInv'
  <2>1. /\ ui = IdleUI /\ ui' = [at |-> "flip", plugin |-> p, value |-> NoValue]
        /\ alive # "exited" /\ UNCHANGED <<enabled, config, refusal, fileOn, fileConfig>>
        /\ UNCHANGED <<calls, running, walk, alive>>
    BY <1>1 DEF PressToggle, Take
  <2>. QED
    BY <2>1 DEF ConfigTyped, UIWaits, Toggling, Saving, Started, Dead, Pending,
       EnabledSaved, ConfigSaved, Refused, UI, IdleUI, WalkTyped, Quitting
<1>2. ASSUME NEW p \in Plugin, NEW text \in Config, PressSave(p, text) PROVE FileInv'
  <2>1. /\ ui = IdleUI /\ ui' = [at |-> "setText", plugin |-> p, value |-> text]
        /\ alive # "exited" /\ UNCHANGED <<enabled, config, refusal, fileOn, fileConfig>>
        /\ UNCHANGED <<calls, running, walk, alive>>
    BY <1>2 DEF PressSave, Take
  <2>. QED
    BY <2>1 DEF ConfigTyped, UIWaits, Toggling, Saving, Started, Dead, Pending,
       EnabledSaved, ConfigSaved, Refused, UI, IdleUI, WalkTyped, Quitting
<1>3. CASE PressQuit
  <2>1. /\ ui = IdleUI /\ ui' = [at |-> "quit", plugin |-> NoValue, value |-> NoValue]
        /\ alive # "exited" /\ UNCHANGED <<enabled, config, refusal, fileOn, fileConfig>>
        /\ UNCHANGED <<calls, running, alive>>
        /\ walk' = [walk EXCEPT ![RunOnQuit] = Begin("on_quit")]
    BY <1>3 DEF PressQuit, Take
  <2>2. WalkTyped' /\ Quitting'
    BY <2>1 DEF WalkTyped, Quitting, Begin, Stage, Walker
  <2>. QED
    BY <2>1, <2>2 DEF ConfigTyped, UIWaits, Toggling, Saving, Started, Dead, Pending,
       EnabledSaved, ConfigSaved, Refused, UI, IdleUI
<1>4. CASE Flip
  <2>1. /\ ui.at = "flip"
        /\ ui' = [at |-> "saveFlip", plugin |-> ui.plugin,
                  value |-> IF ui.plugin \in enabled THEN "off" ELSE "on"]
        /\ enabled' = IF ui.plugin \in enabled THEN enabled \ {ui.plugin}
                                              ELSE enabled \cup {ui.plugin}
        /\ refusal' = [refusal EXCEPT ![ui.plugin] =
                          IF refusal[ui.plugin] = "overtook" THEN "earlier" ELSE refusal[ui.plugin]]
        /\ UNCHANGED <<config, fileOn, fileConfig, calls, running, walk, alive>>
    BY <1>4 DEF Flip
  <2>2. alive # "exited"
    BY <2>1 DEF Dead, IdleUI
  <2>3. ui' \in UI /\ Toggling'
    BY <2>1 DEF UI, Toggling
  <2>4. ui.plugin \in Plugin
    BY <2>1 DEF Toggling
  <2>5. Refused' /\ \A p \in Plugin \ {ui.plugin} : refusal'[p] = refusal[p]
    BY <2>1, <2>4 DEF Refused, Refusal
  <2>6. EnabledSaved'
    BY <2>1, <2>5 DEF EnabledSaved
  <2>. QED
    BY <2>1, <2>2, <2>3, <2>5, <2>6 DEF ConfigTyped, UIWaits, Saving, Started, Dead, Pending,
       ConfigSaved, WalkTyped, Quitting
<1>5. CASE SaveFlip
  <2>. DEFINE p     == ui.plugin
              start == [plugin |-> p, hook |-> "on_start", by |-> pressed,
                        mode |-> Mode[p]["on_start"]]
              runs  == ui.value = "on" /\ start.mode # "none"
  <2>1. /\ ui.at = "saveFlip"
        /\ fileOn' = IF ui.value = "on" THEN fileOn \cup {p} ELSE fileOn \ {p}
        /\ calls' = IF runs THEN calls \cup {start} ELSE calls
        /\ ui' = IF runs /\ start.mode = "sync"
                 THEN [ui EXCEPT !.at = "blocked"] ELSE IdleUI
        /\ UNCHANGED <<enabled, config, refusal, fileConfig, running, walk, alive>>
    BY <1>5 DEF SaveFlip
  <2>2. alive # "exited"
    BY <2>1 DEF Dead, IdleUI
  <2>3. \A c \in Pending : ~OfUI(c)
    BY <2>1 DEF UIWaits
  <2>4. ui' \in UI /\ ui'.at \in {"blocked", "idle"}
    BY <2>1 DEF UI, IdleUI
  <2>5. runs => start.mode # "none" /\ start.hook = "on_start" /\ start.plugin = p
    OBVIOUS
  <2>6. Started'
    BY <2>1, <2>5 DEF Started, Pending
  <2>7. EnabledSaved'
    <3>1. CASE ui.value = "off" /\ p \notin enabled
      BY <2>1, <3>1 DEF EnabledSaved
    <3>2. CASE ui.value = "on" /\ (p \in enabled \/ refusal[p] = "overtook")
      BY <2>1, <3>2 DEF EnabledSaved
    <3>. QED
      BY <2>1, <3>1, <3>2 DEF Toggling
  <2>8. UIWaits'
    <3>1. CASE runs /\ start.mode = "sync"
      <4>1. ui'.at = "blocked" /\ calls' = calls \cup {start} /\ running' = running
        BY <2>1, <3>1 DEF UI
      <4>2. \A c \in Pending' : OfUI(c) => c = start
        BY <2>3, <4>1 DEF Pending
      <4>3. \A c \in running' : ~OfUI(c)
        BY <2>3, <4>1 DEF Pending
      <4>. QED
        BY <4>1, <4>2, <4>3 DEF UIWaits
    <3>2. CASE ~(runs /\ start.mode = "sync")
      <4>1. \A c \in Pending' : ~OfUI(c)
        BY <2>1, <2>3, <3>2 DEF Pending, OfUI
      <4>. QED
        BY <4>1 DEF UIWaits, Pending
    <3>. QED
      BY <3>1, <3>2
  <2>. QED
    BY <2>1, <2>2, <2>4, <2>6, <2>7, <2>8
    DEF ConfigTyped, Toggling, Saving, Dead, ConfigSaved, Refused, WalkTyped, Quitting
<1>6. CASE SetText
  <2>1. /\ ui.at = "setText" /\ ui' = [ui EXCEPT !.at = "saveText"]
        /\ config' = [config EXCEPT ![ui.plugin] = ui.value]
        /\ UNCHANGED <<enabled, refusal, fileOn, fileConfig, calls, running, walk, alive>>
    BY <1>6 DEF SetText
  <2>2. alive # "exited"
    BY <2>1 DEF Dead, IdleUI
  <2>3. /\ ui' \in UI /\ ui'.at = "saveText" /\ ui'.plugin = ui.plugin
        /\ ui'.value = ui.value /\ ui.plugin \in Plugin /\ ui.value \in Config
    BY <2>1 DEF UI, Saving
  <2>4. ConfigTyped' /\ ConfigSaved' /\ Saving'
    BY <2>1, <2>3 DEF ConfigTyped, ConfigSaved, Saving
  <2>. QED
    BY <2>1, <2>2, <2>3, <2>4 DEF UIWaits, Toggling, Started, Dead, Pending,
       EnabledSaved, Refused, WalkTyped, Quitting
<1>7. CASE SaveText
  <2>. DEFINE p    == ui.plugin
              call == [plugin |-> p, hook |-> "on_config", by |-> pressed, mode |-> "sync"]
  <2>1. /\ ui.at = "saveText" /\ ui' = [ui EXCEPT !.at = "blocked"]
        /\ fileConfig' = IF ui.value \in Unparsable THEN fileConfig
                         ELSE [fileConfig EXCEPT ![p] = ui.value]
        /\ calls' = calls \cup {call}
        /\ UNCHANGED <<enabled, config, refusal, fileOn, running, walk, alive>>
    BY <1>7 DEF SaveText
  <2>2. alive # "exited"
    BY <2>1 DEF Dead, IdleUI
  <2>3. ui' \in UI /\ ui'.at = "blocked" /\ p \in Plugin /\ config[p] = ui.value
    BY <2>1 DEF UI, Saving
  <2>4. ConfigTyped' /\ ConfigSaved'
    BY <2>1, <2>3 DEF ConfigTyped, ConfigSaved
  <2>5. \A c \in Pending : ~OfUI(c)
    BY <2>1 DEF UIWaits
  <2>6. UIWaits'
    <3>1. \A c \in Pending' : OfUI(c) => c = call
      BY <2>1, <2>5 DEF Pending
    <3>2. \A c \in running' : ~OfUI(c)
      BY <2>1, <2>5 DEF Pending
    <3>. QED
      BY <2>3, <3>1, <3>2 DEF UIWaits
  <2>7. Started' /\ EnabledSaved'
    <3>1. call.hook = "on_config"
      OBVIOUS
    <3>. QED
      BY <2>1, <3>1 DEF Started, EnabledSaved, Pending
  <2>. QED
    BY <2>1, <2>2, <2>3, <2>4, <2>6, <2>7
    DEF Toggling, Saving, Dead, Refused, WalkTyped, Quitting
<1>8. CASE Exit
  <2>1. WalkTyped' /\ Quitting'
    BY <1>8 DEF Exit, WalkTyped, Quitting, Walker, AtRest, Stage
  <2>. QED
    BY <1>8, <2>1 DEF Exit, ConfigTyped, UIWaits, Toggling, Saving, Started, Dead, Pending,
       EnabledSaved, ConfigSaved, Refused, IdleUI
<1>. QED
  BY <1>1, <1>2, <1>3, <1>4, <1>5, <1>6, <1>7, <1>8 DEF Page

LEMMA FileInvStep == FileInv /\ [Next]_vars => FileInv'
<1>. SUFFICES ASSUME FileInv, [Next]_vars PROVE FileInv'
  OBVIOUS
<1>1. ASSUME NEW e \in Event, Arrive(e) PROVE FileInv'
  <2>1. /\ alive # "exited" /\ walk' = [walk EXCEPT ![e] = Begin("sync")]
        /\ UNCHANGED <<enabled, config, refusal, fileOn, fileConfig, calls, running, ui, alive>>
    BY <1>1 DEF Arrive, memory, file, locks, loop
  <2>2. WalkTyped' /\ Quitting'
    BY <2>1, PluginAssumption DEF FileInv, WalkTyped, Quitting, Walker, Begin, Stage
  <2>. QED
    BY <2>1, <2>2 DEF FileInv, ConfigTyped, UIWaits, Toggling, Saving, Started, Dead, Pending,
       EnabledSaved, ConfigSaved, Refused
<1>2. ASSUME NEW p \in Plugin, HookCallOf(p) PROVE FileInv'
  BY <1>2, EnterStep, LeaveStep DEF HookCallOf, HookCall
<1>3. CASE UNCHANGED vars
  BY <1>3 DEF vars, memory, file, locks, walks, loop, FileInv, ConfigTyped, UIWaits, Toggling,
     Saving, Started, Dead, Pending, EnabledSaved, ConfigSaved, Refused, WalkTyped, Quitting
<1>. QED
  BY <1>1, <1>2, <1>3, PageStep, WalkStep DEF Next, Rest

\* plugins.yaml says what is in memory whenever no toggle, save or start is
\* under way, although TogglePlugin and SaveConfig write it without the lock
\* and any on_start may switch its plugin off in between: all that can differ is
\* a plugin whose on_start answered false between the two steps of the last
\* toggle that switched it on.
THEOREM FileAgreesCorrect == Spec => []PluginsFileAgrees
<1>1. FileInv => PluginsFileAgrees
  BY DEF FileInv, EnabledSaved, ConfigSaved, PluginsFileAgrees, Calm, IdleUI
<1>. QED
  BY <1>1, FileInvInit, FileInvStep, PTL DEF Spec

\* A plugin that has run on_config knows its configuration, or will be told.
Told ==
    /\ applied \in [Plugin -> Config \cup {NoValue}]
    /\ \A p \in Plugin :
          \/ applied[p] \in {config[p], NoValue}
          \/ ui.at = "saveText" /\ ui.plugin = p
          \/ \E c \in calls : c.plugin = p /\ c.hook = "on_config"
          \/ alive = "exited"

LEMMA ToldStep == FileInv /\ FileInv' /\ Told /\ [Next]_vars => Told'
<1>. SUFFICES ASSUME FileInv, FileInv', Told, [Next]_vars PROVE Told'
  OBVIOUS
<1>. USE DEF Told, memory, file, locks, walks, loop
<1>1. ASSUME calls \subseteq calls', UNCHANGED <<config, applied>>,
             ui.at = "saveText" => ui' = ui, alive = "exited" => alive' = alive
      PROVE  Told'
  BY <1>1
<1>2. ASSUME NEW w \in Walker, Goroutine(w) PROVE Told'
  <2>1. alive # "exited" /\ (UNCHANGED <<ui, alive>> \/ ui.at # "saveText")
    BY <1>2, WalkMoves, PluginAssumption DEF FileInv, Dead, Walking, AtRest, PassEnds, Quitting
  <2>2. calls \subseteq calls' /\ UNCHANGED <<config, applied>>
    BY <1>2 DEF Goroutine, Skip, CallHook, SpawnHook, PassEnds
  <2>. QED
    BY <1>1, <2>1, <2>2
<1>3. ASSUME NEW e \in Event, Arrive(e) PROVE Told'
  BY <1>1, <1>3 DEF Arrive
<1>4. ASSUME NEW c \in calls, LockAndEnter(c), c.plugin \in Plugin PROVE Told'
  <2>1. /\ calls' = calls \ {c} /\ UNCHANGED <<config, ui, alive>>
        /\ applied' = IF c.hook = "on_config"
                      THEN [applied EXCEPT ![c.plugin] = config[c.plugin]] ELSE applied
    BY <1>4 DEF LockAndEnter
  <2>. QED
    BY <1>4, <2>1 DEF FileInv, ConfigTyped
<1>5. ASSUME NEW c, NEW answer, LeaveAlone(c, answer) \/ LeaveWalk(c, answer) PROVE Told'
  <2>1. calls' = calls /\ UNCHANGED <<config, applied, alive>>
    BY <1>5 DEF LeaveAlone, LeaveWalk
  <2>2. ui.at = "saveText" => ui' = ui
    <3>1. CASE LeaveAlone(c, answer)
      BY <3>1 DEF LeaveAlone, FileInv, UIWaits, OfUI, Pending
    <3>. QED
      BY <1>5, <3>1 DEF LeaveWalk
  <2>. QED
    BY <1>1, <2>1, <2>2
<1>6. ASSUME NEW p \in Plugin, HookCallOf(p) PROVE Told'
  BY <1>4, <1>5, <1>6 DEF HookCallOf, HookCall
<1>7. CASE Page
  <2>1. ASSUME NEW p \in Plugin, NEW text \in Config, PressSave(p, text) PROVE Told'
    BY <1>1, <2>1 DEF PressSave, Take, IdleUI
  <2>2. CASE PressQuit
    BY <1>1, <2>2 DEF PressQuit, Take, IdleUI
  <2>3. CASE Flip \/ SaveFlip
    BY <1>1, <2>3 DEF Flip, SaveFlip
  <2>4. CASE SetText
    <3>1. ui'.at = "saveText" /\ ui'.plugin = ui.plugin
      BY <2>4 DEF SetText, FileInv, UI
    <3>. QED
      BY <2>4, <3>1 DEF SetText, FileInv, ConfigTyped
  <2>5. CASE SaveText
    <3>. DEFINE call == [plugin |-> ui.plugin, hook |-> "on_config", by |-> pressed,
                         mode |-> "sync"]
    <3>1. call \in calls' /\ call.plugin = ui.plugin /\ call.hook = "on_config"
      BY <2>5 DEF SaveText
    <3>2. calls \subseteq calls' /\ UNCHANGED <<config, applied, alive>>
      BY <2>5 DEF SaveText
    <3>. HIDE DEF call
    <3>. QED
      BY <3>1, <3>2
  <2>6. CASE Exit
    BY <2>6 DEF Exit
  <2>7. ASSUME NEW p \in Plugin, PressToggle(p) PROVE Told'
    BY <1>1, <2>7 DEF PressToggle, Take, IdleUI
  <2>. QED
    BY <1>7, <2>1, <2>2, <2>3, <2>4, <2>5, <2>6, <2>7 DEF Page
<1>8. CASE UNCHANGED vars
  BY <1>1, <1>8 DEF vars
<1>. QED
  BY <1>2, <1>3, <1>6, <1>7, <1>8 DEF Next, Rest

\* Whoever calls on_config and in whatever order, what a plugin has taken over
\* is its present configuration, or nothing if it never ran on_config.
THEOREM ConfigAppliedCorrect == Spec => []ConfigApplied
<1>1. Init => Told
  BY PluginAssumption DEF Init, Told
<1>2. FileInv /\ Told => ConfigApplied
  <2>. SUFFICES ASSUME FileInv, Told, Calm, NEW p \in Plugin
                PROVE  applied[p] \in {config[p], NoValue}
    BY DEF ConfigApplied
  <2>1. ui.at = "idle" /\ \A c \in calls : c.hook # "on_config"
    BY DEF Calm, IdleUI
  <2>2. alive # "exited"
    BY DEF Calm, FileInv, Dead, Walker, AtRest
  <2>. QED
    BY <2>1, <2>2 DEF Told
<1>. QED
  BY <1>1, <1>2, FileInvInit, FileInvStep, ToldStep, PTL DEF Spec
-----------------------------------------------------------------------------
(* What the walks, the page and the hook calls know of each other.         *)

\* A key is being handled only if one was pressed.
PageTyped ==
    /\ enabled \subseteq Plugin /\ fileOn \subseteq Plugin /\ shown \subseteq Plugin
    /\ pressed \in 0 .. MaxPresses /\ alive \in {"up", "quitting", "exited"}
    /\ ui.at # "idle" => pressed \in Press
    /\ ui.at \in {"flip", "saveFlip"} => ui.plugin \in Plugin

PendingTyped == Pending \subseteq Call

WalkKinds ==
    /\ walk[RunOnStart].stage \in {"idle", "on_config", "on_start", "done"}
    /\ walk[RunOnQuit].stage \in {"idle", "on_quit", "done"}
    /\ \A e \in Event : walk[e].stage \in {"idle", "sync", "async", "done"}

Within ==
    \A w \in Walker :
        IF walk[w].stage \in Walking THEN walk[w].at \in 1 .. (Len(Targets(w)) + 1)
                                     ELSE walk[w].at = 1

\* A call for which a walk waits is the call of the plugin the walk is at, and
\* the walk makes no other.
OfWalk(c) == c.mode = "sync" /\ c.by \in Walker

Awaited(c) ==
    /\ walk[c.by].stage \in Walking \ {"async"}
    /\ walk[c.by].step = "blocked"
    /\ walk[c.by].at <= Len(Targets(c.by))
    /\ c.plugin = Targets(c.by)[walk[c.by].at]
    /\ c.hook = HookAt(c.by)

WalksWait ==
    /\ \A c \in Pending : OfWalk(c) => Awaited(c)
    /\ \A c \in running : OfWalk(c) => c \notin calls

WalkInv == WalkTyped /\ WalkKinds /\ Within /\ PendingTyped /\ WalksWait

\* What has become of an event so far.
Deciding(e, p) == said[e][p] \in Stops(HookOf[e])
Heard(e, p)    == p \in steady[e] /\ Mode[p][HookOf[e]] = "sync" => said[e][p] # "unasked"
HeardAll(e)    == \A k \in 1 .. (walk[e].at - 1) : Heard(e, Targets(e)[k])
Decided(e) ==
    IF verdict[e] = "intercept"
    THEN \A p \in Plugin : Heard(e, p) /\ ~Deciding(e, p)
    ELSE \E i \in DOMAIN Order :
           /\ said[e][Order[i]] = verdict[e]
           /\ \A j \in 1 .. (i - 1) : Heard(e, Order[j]) /\ ~Deciding(e, Order[j])

EventTyped ==
    /\ verdict \in [Event -> {"intercept", "drop", "forward", "skip"}]
    /\ steady \in [Event -> SUBSET Plugin]
    /\ said \in [Event -> [Plugin -> Answer \cup {"unasked"}]]

EventInv(e) ==
    /\ walk[e].stage = "idle" /\ alive # "exited" =>
         verdict[e] = "intercept" /\ \A p \in Plugin : ~Deciding(e, p)
    /\ walk[e].stage = "sync" =>
         /\ verdict[e] = "intercept" /\ \A p \in Plugin : ~Deciding(e, p)
         /\ steady[e] \subseteq enabled
         /\ HeardAll(e)
    /\ walk[e].stage \in {"async", "done"} => Decided(e)

EventsInv == EventTyped /\ \A e \in Event : EventInv(e)

\* A plugin whose last on_start answered false has another ahead of it where it
\* is on; one whose on_start never did is what the page shows, but for a key
\* that has not been handled yet.
ToStart(p) ==
    \/ ui.at = "saveFlip" /\ ui.plugin = p
    \/ \E c \in Pending : c.plugin = p /\ c.hook = "on_start"
    \/ alive = "exited"

SwitchInv ==
    \A p \in Plugin :
        /\ refusal[p] = "never" =>
              ((p \in enabled <=> p \in shown) <=> ~(ui.at = "flip" /\ ui.plugin = p))
        /\ refusal[p] = "last" /\ p \in enabled \cup fileOn => ToStart(p)

LEMMA PageTypedStep == FileInv /\ PageTyped /\ [Next]_vars => PageTyped'
<1>. SUFFICES ASSUME FileInv, PageTyped, [Next]_vars PROVE PageTyped'
  OBVIOUS
<1>. USE PluginAssumption DEF PageTyped, memory, file, locks, walks, loop
<1>0. MaxPresses \in Nat /\ pressed \in Nat /\ pressed <= MaxPresses
  OBVIOUS
<1>1. ASSUME NEW step \in {"flip", "setText", "quit"}, NEW p, NEW value, Take(step, p, value),
             shown' \subseteq Plugin, step = "flip" => p \in Plugin
      PROVE  PageTyped'
  <2>1. /\ pressed' = pressed + 1 /\ pressed < MaxPresses
        /\ ui' = [at |-> step, plugin |-> p, value |-> value]
        /\ UNCHANGED <<enabled, fileOn, alive>>
    BY <1>1 DEF Take
  <2>2. pressed' \in 0 .. MaxPresses /\ pressed' \in Press
    BY <1>0, <2>1 DEF Press
  <2> QED  BY <1>1, <2>1, <2>2
<1>2. ASSUME NEW p \in Plugin, PressToggle(p) PROVE PageTyped'
  BY <1>1, <1>2 DEF PressToggle
<1>3. ASSUME NEW p \in Plugin, NEW text \in Config, PressSave(p, text) PROVE PageTyped'
  BY <1>1, <1>3 DEF PressSave
<1>4. CASE PressQuit
  BY <1>1, <1>4 DEF PressQuit
<1>5. CASE Flip
  BY <1>5 DEF Flip
<1>6. CASE SaveFlip
  <2>1. /\ fileOn' \subseteq Plugin /\ UNCHANGED <<enabled, shown, pressed, alive>>
        /\ ui.at = "saveFlip"
    BY <1>6 DEF SaveFlip
  <2>2. ui' = [ui EXCEPT !.at = "blocked"] \/ ui' = IdleUI
    BY <1>6 DEF SaveFlip
  <2>3. ui'.at \in {"blocked", "idle"}
    BY <2>2 DEF FileInv, UI, IdleUI
  <2> QED  BY <2>1, <2>3
<1>7. CASE SetText \/ SaveText
  <2>1. /\ UNCHANGED <<enabled, fileOn, shown, pressed, alive>>
        /\ ui.at \in {"setText", "saveText"}
        /\ ui' = [ui EXCEPT !.at = "saveText"] \/ ui' = [ui EXCEPT !.at = "blocked"]
    BY <1>7 DEF SetText, SaveText
  <2>2. ui'.at \in {"blocked", "saveText"}
    BY <2>1 DEF FileInv, UI
  <2> QED  BY <2>1, <2>2
<1>8. CASE Exit
  BY <1>8 DEF Exit
<1>9. ASSUME NEW w, Goroutine(w) \/ Arrive(w) PROVE PageTyped'
  <2>1. /\ UNCHANGED <<enabled, fileOn, shown, pressed>>
        /\ UNCHANGED <<ui, alive>> \/ (ui' = IdleUI /\ alive' = "quitting")
    BY <1>9 DEF Goroutine, Skip, CallHook, SpawnHook, PassEnds, Arrive
  <2> QED  BY <2>1 DEF IdleUI
<1>10. ASSUME NEW c, LockAndEnter(c) PROVE PageTyped'
  BY <1>10 DEF LockAndEnter
<1>11. ASSUME NEW c, NEW answer, LeaveAlone(c, answer) \/ LeaveWalk(c, answer) PROVE PageTyped'
  <2>1. /\ DisableIfFalse(c, answer) /\ UNCHANGED <<shown, pressed, alive>>
        /\ ui' = IdleUI \/ ui' = ui
    BY <1>11 DEF LeaveAlone, LeaveWalk
  <2> QED  BY <2>1 DEF DisableIfFalse, IdleUI
<1>12. CASE UNCHANGED vars
  BY <1>12 DEF vars
<1> QED
  BY <1>2, <1>3, <1>4, <1>5, <1>6, <1>7, <1>8, <1>9, <1>10, <1>11, <1>12
  DEF Next, Rest, Page, HookCallOf, HookCall
-----------------------------------------------------------------------------
LEMMA TargetsOf ==
    ASSUME NEW w \in Walker, walk[w].stage \in Walking
    PROVE  /\ Targets(w) \in Seq(Plugin) /\ Len(Targets(w)) \in Nat
           /\ Len(Targets(w)) <= Len(Order)
<1>. DEFINE S == {i \in DOMAIN Order : Wants(w, Order[i])}
<1>1. S \in SUBSET DOMAIN Order /\ Order \in Seq(Plugin) /\ Len(Order) \in Nat
  BY PluginAssumption
<1>. HIDE DEF S
<1>2. /\ Kept(Order, S) \in Seq(Plugin) /\ Len(Kept(Order, S)) = Cardinality(S)
      /\ Cardinality(S) \in 0 .. Len(Order)
  BY <1>1, KeptType
<1>3. Targets(w) = Kept(Order, S)
  BY DEF Targets, S
<1> QED  BY <1>1, <1>2, <1>3

LEMMA LengthNow == \A w \in Walker : walk[w].stage \in Walking => Len(Targets(w)) \in Nat
BY TargetsOf

LEMMA LengthNext ==
    (\A w \in Walker : walk[w].stage \in Walking => Len(Targets(w)) \in Nat)'
BY LengthNow, PTL

\* The plugin a walk is at is one that has the hook.
LEMMA TargetWants ==
    ASSUME NEW w \in Walker, NEW k \in 1 .. Len(Targets(w))
    PROVE  \E i \in DOMAIN Order :
             /\ Targets(w)[k] = Order[i] /\ Wants(w, Order[i])
             /\ \A j \in 1 .. (i - 1) :
                  Wants(w, Order[j]) => \E l \in 1 .. (k - 1) : Targets(w)[l] = Order[j]
<1>. DEFINE S == {i \in DOMAIN Order : Wants(w, Order[i])}
<1>1. S \in SUBSET DOMAIN Order /\ Order \in Seq(Plugin) /\ Targets(w) = Kept(Order, S)
  BY PluginAssumption DEF Targets
<1>2. \A i \in DOMAIN Order : i \in S <=> Wants(w, Order[i])
  OBVIOUS
<1>. HIDE DEF S
<1>3. /\ IsFiniteSet(S) /\ S \in SUBSET Nat /\ Len(Targets(w)) = Cardinality(S)
      /\ DOMAIN Targets(w) = 1 .. Cardinality(S)
      /\ \A n \in 1 .. Cardinality(S) : Kth(S, n) \in S /\ Targets(w)[n] = Order[Kth(S, n)]
  BY <1>1, KeptType
<1>4. k \in 1 .. Cardinality(S) /\ Kth(S, k) \in S /\ Targets(w)[k] = Order[Kth(S, k)]
  BY <1>3
<1>5. ASSUME NEW j \in 1 .. (Kth(S, k) - 1), Wants(w, Order[j])
      PROVE  \E l \in 1 .. (k - 1) : Targets(w)[l] = Order[j]
  <2>1. j \in S /\ j < Kth(S, k)
    <3>1. Kth(S, k) \in 1 .. Len(Order)
      BY <1>1, <1>4
    <3> QED  BY <1>1, <1>2, <1>5, <3>1
  <2>2. PICK l \in 1 .. Cardinality(S) : Kth(S, l) = j
    BY <1>3, <2>1, KthReaches
  <2>3. ASSUME k < l PROVE FALSE
    <3>1. Kth(S, k) < Kth(S, l)
      BY <1>3, <1>4, <2>3, KthAscends
    <3>2. Kth(S, k) \in Nat
      BY <1>3, <1>4
    <3> QED  BY <2>1, <2>2, <3>1, <3>2
  <2>4. l # k
    BY <1>3, <1>4, <2>1, <2>2
  <2>5. l \in 1 .. (k - 1)
    BY <2>3, <2>4
  <2> QED  BY <1>3, <2>2, <2>5
<1> QED  BY <1>1, <1>2, <1>4, <1>5

\* And none that has the hook is missing.
LEMMA TargetsAll ==
    ASSUME NEW w \in Walker, NEW p \in Plugin, Wants(w, p)
    PROVE  \E k \in 1 .. Len(Targets(w)) : Targets(w)[k] = p
<1>. DEFINE S == {i \in DOMAIN Order : Wants(w, Order[i])}
<1>1. S \in SUBSET DOMAIN Order /\ Order \in Seq(Plugin) /\ Targets(w) = Kept(Order, S)
  BY PluginAssumption DEF Targets
<1>2. PICK i \in DOMAIN Order : Order[i] = p
  BY PluginAssumption
<1>3. i \in S
  BY <1>2
<1>. HIDE DEF S
<1>4. \E k \in DOMAIN Kept(Order, S) : Kept(Order, S)[k] = Order[i]
  BY <1>1, <1>3, KeptReaches
<1>5. DOMAIN Kept(Order, S) = 1 .. Cardinality(S) /\ Len(Kept(Order, S)) = Cardinality(S)
  BY <1>1, KeptType
<1> QED  BY <1>1, <1>2, <1>4, <1>5

\* The targets of a walk are the same until its stage changes.
LEMMA TargetsStay ==
    ASSUME NEW w \in Walker, walk'[w].stage = walk[w].stage
    PROVE  Targets(w)' = Targets(w) /\ HookAt(w)' = HookAt(w)
BY DEF Targets, Wants, HookAt

LEMMA HookAtType ==
    ASSUME WalkInv, NEW w \in Walker, walk[w].stage \in Walking
    PROVE  /\ HookAt(w) \in Hook
           /\ walk[w].stage \in {"sync", "async"} <=> w \in Event
           /\ HookAt(w) \in EventHook <=> w \in Event
<1>1. /\ RunOnStart \notin Event /\ RunOnQuit \notin Event
      /\ \A e \in Event : HookOf[e] \in EventHook
  BY PluginAssumption
<1>2. CASE w \in Event
  <2>1. walk[w].stage \in {"sync", "async"}
    BY <1>2 DEF WalkInv, WalkKinds, Walking
  <2> QED  BY <1>1, <1>2, <2>1 DEF HookAt, Hook
<1>3. CASE w \in {RunOnStart, RunOnQuit}
  <2>1. walk[w].stage \in {"on_config", "on_start", "on_quit"}
    BY <1>3 DEF WalkInv, WalkKinds, Walking
  <2> QED  BY <1>1, <1>3, <2>1 DEF HookAt, Hook, EventHook
<1> QED  BY <1>2, <1>3 DEF Walker

LEMMA AwaitedStays ==
    ASSUME WalkTyped, NEW c, c.by \in Walker, walk'[c.by] = walk[c.by], Awaited(c)
    PROVE  Awaited(c)'
<1>1. Targets(c.by)' = Targets(c.by) /\ HookAt(c.by)' = HookAt(c.by)
  BY TargetsStay
<1> QED  BY <1>1 DEF Awaited

\* No walk moves.
LEMMA WalksStay ==
    ASSUME WalkInv, walk' = walk, PendingTyped',
           \A c \in Pending' : c \in Pending \/ ~OfWalk(c),
           \A c \in running' : OfWalk(c) => c \notin calls'
    PROVE  WalkInv'
<1>1. WalkTyped' /\ WalkKinds'
  BY DEF WalkInv, WalkTyped, WalkKinds
<1>2. Within'
  <2>1. \A w \in Walker : Targets(w)' = Targets(w)
    BY TargetsStay
  <2> QED  BY <2>1 DEF WalkInv, Within
<1>3. \A c \in Pending' : OfWalk(c) => Awaited(c)'
  BY AwaitedStays DEF WalkInv, WalksWait, OfWalk
<1> QED  BY <1>1, <1>2, <1>3 DEF WalkInv, WalksWait, OfWalk

\* One does.
LEMMA WalkMovesOn ==
    ASSUME WalkInv, NEW w \in Walker, WalkTyped', WalkKinds',
           \A v \in Walker \ {w} : walk'[v] = walk[v],
           IF walk'[w].stage \in Walking THEN walk'[w].at \in 1 .. (Len(Targets(w)') + 1)
                                         ELSE walk'[w].at = 1,
           PendingTyped',
           \A c \in Pending' : OfWalk(c) => IF c.by = w THEN Awaited(c)' ELSE c \in Pending,
           \A c \in running' : OfWalk(c) => c \notin calls'
    PROVE  WalkInv'
<1>1. Within'
  <2>1. \A v \in Walker \ {w} : Targets(v)' = Targets(v)
    BY TargetsStay
  <2> QED  BY <2>1 DEF WalkInv, Within
<1>2. \A c \in Pending' : OfWalk(c) => Awaited(c)'
  BY AwaitedStays DEF WalkInv, WalksWait, OfWalk
<1> QED  BY <1>1, <1>2 DEF WalkInv, WalksWait, OfWalk

LEMMA WalkInvGoroutine ==
    ASSUME WalkInv, NEW w \in Walker, Goroutine(w) PROVE WalkInv'
<1>. USE DEF memory, file, locks, walks, loop
<1>1. /\ walk \in [Walker -> [stage : Stage, at : Nat, step : {"look", "blocked"}]]
      /\ walk[w].stage \in Walking /\ walk[w].at \in 1 .. (Len(Targets(w)) + 1)
  BY DEF WalkInv, WalkTyped, Within, Goroutine, Skip, CallHook, SpawnHook, PassEnds, Looking
<1>2. /\ Targets(w) \in Seq(Plugin) /\ Len(Targets(w)) \in Nat
      /\ HookAt(w) \in Hook /\ (walk[w].stage \in {"sync", "async"} <=> w \in Event)
  BY <1>1, TargetsOf, HookAtType
<1>3. \A c \in Pending : c \in Call /\ (OfWalk(c) => Awaited(c))
  BY DEF WalkInv, PendingTyped, WalksWait
<1>4. ASSUME NEW at \in Nat, NEW step \in {"look", "blocked"}, MoveTo(w, at, step)
      PROVE  /\ WalkTyped' /\ WalkKinds' /\ Targets(w)' = Targets(w) /\ HookAt(w)' = HookAt(w)
             /\ \A v \in Walker \ {w} : walk'[v] = walk[v]
             /\ walk'[w] = [stage |-> walk[w].stage, at |-> at, step |-> step]
  <2>1. /\ walk' = [walk EXCEPT ![w] = [stage |-> walk[w].stage, at |-> at, step |-> step]]
        /\ walk[w].stage \in Stage
    BY <1>1, <1>4 DEF MoveTo
  <2>2. WalkTyped' /\ \A v \in Walker : walk'[v].stage = walk[v].stage
    BY <1>1, <2>1 DEF WalkTyped
  <2>3. WalkKinds'
    BY <2>2 DEF WalkInv, WalkKinds, Walker
  <2>4. Targets(w)' = Targets(w) /\ HookAt(w)' = HookAt(w)
    BY <2>2, TargetsStay
  <2>5. /\ \A v \in Walker \ {w} : walk'[v] = walk[v]
        /\ walk'[w] = [stage |-> walk[w].stage, at |-> at, step |-> step]
    BY <1>1, <2>1
  <2> QED  BY <2>2, <2>3, <2>4, <2>5
<1>5. ASSUME Looking(w)
      PROVE  /\ walk[w].step = "look" /\ walk[w].at + 1 \in Nat
             /\ walk[w].at \in 1 .. Len(Targets(w))
             /\ walk[w].at + 1 \in 1 .. (Len(Targets(w)) + 1)
             /\ Targets(w)[walk[w].at] \in Plugin
             /\ \A c \in Pending : OfWalk(c) => c.by # w
  <2>1. walk[w].step = "look" /\ walk[w].at \in 1 .. Len(Targets(w))
    BY <1>1, <1>5 DEF Looking
  <2>2. \A c \in Pending : OfWalk(c) => c.by # w
    BY <1>3, <2>1 DEF Awaited
  <2> QED  BY <1>2, <2>1, <2>2
<1>6. ASSUME Looking(w), Step(w), calls' = calls, running' = running PROVE WalkInv'
  <2>1. MoveTo(w, walk[w].at + 1, "look") /\ walk[w].at + 1 \in Nat
    BY <1>5, <1>6 DEF Step
  <2>2. /\ WalkTyped' /\ WalkKinds' /\ Targets(w)' = Targets(w)
        /\ \A v \in Walker \ {w} : walk'[v] = walk[v]
        /\ walk'[w] = [stage |-> walk[w].stage, at |-> walk[w].at + 1, step |-> "look"]
    BY <1>4, <2>1
  <2>3. /\ PendingTyped' /\ \A c \in running' : OfWalk(c) => c \notin calls'
        /\ \A c \in Pending' : OfWalk(c) => c \in Pending /\ c.by # w
    BY <1>3, <1>5, <1>6 DEF PendingTyped, Pending, WalkInv, WalksWait, OfWalk
  <2>4. walk'[w].stage \in Walking /\ walk'[w].at \in 1 .. (Len(Targets(w)') + 1)
    BY <1>1, <1>5, <1>6, <2>2
  <2> QED  BY <2>2, <2>3, <2>4, WalkMovesOn
<1>7. CASE Skip(w)
  BY <1>6, <1>7 DEF Skip
<1>8. CASE CallHook(w)
  <2>0. PICK c : c = [plugin |-> Targets(w)[walk[w].at], hook |-> HookAt(w), by |-> w,
                      mode |-> "sync"]
    OBVIOUS
  <2>1. /\ Looking(w) /\ Mode[c.plugin][HookAt(w)] = "sync" /\ calls' = calls \cup {c}
        /\ running' = running /\ MoveTo(w, walk[w].at, "blocked")
    BY <1>8, <2>0 DEF CallHook
  <2>2. /\ WalkTyped' /\ WalkKinds' /\ Targets(w)' = Targets(w) /\ HookAt(w)' = HookAt(w)
        /\ \A v \in Walker \ {w} : walk'[v] = walk[v]
        /\ walk'[w] = [stage |-> walk[w].stage, at |-> walk[w].at, step |-> "blocked"]
    BY <1>1, <1>4, <2>1
  <2>3. c \in Call /\ c.by = w /\ c.plugin = Targets(w)[walk[w].at] /\ c.hook = HookAt(w)
    BY <1>2, <1>5, <2>0, <2>1 DEF Call
  <2>4. walk[w].stage # "async"
    <3>1. Wants(w, c.plugin)
      BY <1>5, <2>1, <2>3, TargetWants
    <3> QED  BY <2>1, <3>1 DEF Wants
  <2>5. Awaited(c)'
    BY <1>1, <1>5, <2>1, <2>2, <2>3, <2>4 DEF Awaited
  <2>6. PendingTyped'
    BY <1>3, <2>1, <2>3 DEF PendingTyped, Pending
  <2>7. ASSUME NEW d \in Pending', OfWalk(d) PROVE IF d.by = w THEN d = c ELSE d \in Pending
    BY <1>5, <2>1, <2>3, <2>7 DEF Pending
  <2>8. \A d \in running' : OfWalk(d) => d \notin calls'
    BY <1>5, <2>1, <2>3 DEF Pending, WalkInv, WalksWait
  <2>9. walk'[w].stage \in Walking /\ walk'[w].at \in 1 .. (Len(Targets(w)') + 1)
    BY <1>1, <1>5, <2>1, <2>2
  <2>10. \A d \in Pending' : OfWalk(d) => IF d.by = w THEN Awaited(d)' ELSE d \in Pending
    BY <2>5, <2>7
  <2> QED  BY <2>2, <2>6, <2>8, <2>9, <2>10, WalkMovesOn
<1>9. CASE SpawnHook(w)
  <2>. DEFINE c == [plugin |-> Targets(w)[walk[w].at], hook |-> HookAt(w), by |-> w,
                    mode |-> "async"]
  <2>1. /\ Looking(w) /\ Step(w) /\ calls' = calls \cup {c} /\ running' = running
    BY <1>9 DEF SpawnHook
  <2>2. MoveTo(w, walk[w].at + 1, "look") /\ walk[w].at + 1 \in Nat
    BY <1>5, <2>1 DEF Step
  <2>3. /\ WalkTyped' /\ WalkKinds' /\ Targets(w)' = Targets(w)
        /\ \A v \in Walker \ {w} : walk'[v] = walk[v]
        /\ walk'[w] = [stage |-> walk[w].stage, at |-> walk[w].at + 1, step |-> "look"]
    BY <1>4, <2>2
  <2>4. c \in Call /\ c.mode = "async"
    BY <1>2, <1>5, <2>1 DEF Call
  <2>. HIDE DEF c
  <2>5. PendingTyped'
    BY <1>3, <2>1, <2>4 DEF PendingTyped, Pending
  <2>6. \A d \in Pending' : OfWalk(d) => d \in Pending /\ d.by # w
    BY <1>5, <2>1, <2>4 DEF Pending, OfWalk
  <2>7. \A d \in running' : OfWalk(d) => d \notin calls'
    BY <2>1, <2>4 DEF OfWalk, WalkInv, WalksWait
  <2>8. walk'[w].stage \in Walking /\ walk'[w].at \in 1 .. (Len(Targets(w)') + 1)
    BY <1>1, <1>5, <2>1, <2>3
  <2> QED  BY <2>3, <2>5, <2>6, <2>7, <2>8, WalkMovesOn
<1>10. CASE PassEnds(w)
  <2>1. /\ walk[w].at > Len(Targets(w)) /\ calls' = calls /\ running' = running
        /\ \E s \in AfterAll(w) : walk' = [walk EXCEPT ![w] = Begin(s)]
    BY <1>10 DEF PassEnds
  <2>2. PICK s \in AfterAll(w) : walk' = [walk EXCEPT ![w] = Begin(s)]
    BY <2>1
  <2>3. /\ s \in Stage
        /\ s \in {"done", "on_start"} \/ (s = "async" /\ w \in Event)
        /\ s = "on_start" => w = RunOnStart
    <3>1. walk[w].stage = "on_config" => w = RunOnStart
      BY PluginAssumption DEF WalkInv, WalkKinds, Walker
    <3> QED  BY <1>2, <3>1 DEF AfterAll, After, Stage
  <2>4. WalkTyped' /\ walk'[w] = Begin(s) /\ \A v \in Walker \ {w} : walk'[v] = walk[v]
    BY <1>1, <2>2, <2>3 DEF Begin, WalkTyped
  <2>5. WalkKinds'
    BY <2>3, <2>4, PluginAssumption DEF WalkInv, WalkKinds, Walker, Begin
  <2>6. \A c \in Pending : OfWalk(c) => c.by # w
    BY <1>2, <1>3, <1>1, <2>1 DEF Awaited
  <2>7. /\ PendingTyped' /\ \A c \in running' : OfWalk(c) => c \notin calls'
        /\ \A c \in Pending' : OfWalk(c) => c \in Pending /\ c.by # w
    BY <1>3, <2>1, <2>6 DEF PendingTyped, Pending, WalkInv, WalksWait, OfWalk
  <2>8. IF walk'[w].stage \in Walking THEN walk'[w].at \in 1 .. (Len(Targets(w)') + 1)
                                      ELSE walk'[w].at = 1
    <3>1. walk'[w].at = 1
      BY <2>4 DEF Begin
    <3>2. ASSUME walk'[w].stage \in Walking PROVE Len(Targets(w)') \in Nat
      BY <3>2, LengthNext
    <3> QED  BY <3>1, <3>2
  <2> QED  BY <2>4, <2>5, <2>7, <2>8, WalkMovesOn
<1> QED  BY <1>7, <1>8, <1>9, <1>10 DEF Goroutine

\* What the end of a hook that a walk waits for does to the walk.
LEMMA LeaveWalkMoves ==
    ASSUME WalkInv, NEW c, NEW answer, LeaveWalk(c, answer)
    PROVE  /\ c \in running /\ c \in Call /\ c.by \in Walker /\ Awaited(c)
           /\ walk[c.by].at \in 1 .. Len(Targets(c.by)) /\ c.plugin \in Plugin
           /\ WalkTyped' /\ WalkKinds'
           /\ \A v \in Walker \ {c.by} : walk'[v] = walk[v]
           /\ \/ /\ answer \notin Stops(c.hook)
                 /\ walk'[c.by] = [stage |-> walk[c.by].stage, at |-> walk[c.by].at + 1,
                                   step |-> "look"]
              \/ /\ answer \in Stops(c.hook)
                 /\ c.by \in Event /\ walk[c.by].stage = "sync"
                 /\ \E s \in {"async", "done"} : walk'[c.by] = Begin(s)
<1>1. /\ c \in running /\ c.mode = "sync" /\ c.by \in Walker
      /\ IF answer \in Stops(c.hook)
         THEN walk' = [walk EXCEPT ![c.by] = Begin(After(c.by, answer))]
         ELSE Step(c.by)
  BY DEF LeaveWalk
<1>. DEFINE w == c.by
<1>2. c \in Call /\ Awaited(c) /\ c.plugin \in Plugin
  BY <1>1 DEF WalkInv, PendingTyped, Pending, WalksWait, OfWalk, Call
<1>3. /\ walk \in [Walker -> [stage : Stage, at : Nat, step : {"look", "blocked"}]]
      /\ walk[w].stage \in Walking \ {"async"} /\ walk[w].at \in 1 .. Len(Targets(w))
      /\ c.hook = HookAt(w)
  BY <1>1, <1>2 DEF WalkInv, WalkTyped, Within, Awaited
<1>4. CASE answer \notin Stops(c.hook)
  <2>1. /\ walk' = [walk EXCEPT ![w] = [stage |-> walk[w].stage, at |-> walk[w].at + 1,
                                        step |-> "look"]]
        /\ walk[w].at + 1 \in Nat /\ walk[w].stage \in Stage
    BY <1>1, <1>3, <1>4 DEF Step, MoveTo
  <2>2. WalkTyped' /\ \A v \in Walker : walk'[v].stage = walk[v].stage
    BY <1>1, <1>3, <2>1 DEF WalkTyped
  <2>3. WalkKinds'
    BY <2>2 DEF WalkInv, WalkKinds, Walker
  <2> QED  BY <1>1, <1>2, <1>3, <1>4, <2>1, <2>2, <2>3
<1>5. CASE answer \in Stops(c.hook)
  <2>1. c.hook \in EventHook
    BY <1>5 DEF Stops, EventHook
  <2>2. w \in Event /\ walk[w].stage = "sync"
    <3>1. w \in Event /\ walk[w].stage \in {"sync", "async"}
      BY <1>1, <1>3, <2>1, HookAtType
    <3> QED  BY <1>3, <3>1
  <2>3. PICK s \in {"async", "done"} : s = After(w, answer)
    BY <2>2 DEF After
  <2>4. walk' = [walk EXCEPT ![w] = Begin(s)] /\ Begin(s) \in [stage : Stage, at : Nat, step : {"look", "blocked"}]
    BY <1>1, <1>5, <2>3 DEF Begin, Stage
  <2>5. WalkTyped' /\ walk'[w] = Begin(s) /\ \A v \in Walker \ {w} : walk'[v] = walk[v]
    BY <1>1, <1>3, <2>4 DEF WalkTyped
  <2>6. WalkKinds'
    BY <2>2, <2>5, PluginAssumption DEF WalkInv, WalkKinds, Walker, Begin
  <2> QED  BY <1>1, <1>2, <1>3, <1>5, <2>2, <2>5, <2>6
<1> QED  BY <1>4, <1>5

LEMMA WalkInvLeave ==
    ASSUME WalkInv, NEW c, NEW answer, LeaveAlone(c, answer) \/ LeaveWalk(c, answer)
    PROVE  WalkInv'
<1>1. /\ c \in running /\ running' = running \ {c} /\ calls' = calls
      /\ LeaveAlone(c, answer) => walk' = walk
  BY DEF LeaveAlone, LeaveWalk
<1>2. /\ PendingTyped' /\ \A d \in running' : OfWalk(d) => d \notin calls'
      /\ \A d \in Pending' : d \in Pending
  BY <1>1 DEF PendingTyped, Pending, WalkInv, WalksWait, OfWalk
<1>3. CASE LeaveAlone(c, answer)
  BY <1>1, <1>2, <1>3, WalksStay
<1>4. CASE LeaveWalk(c, answer)
  <2>. DEFINE w == c.by
  <2>0. w \in Walker
    BY <1>4, LeaveWalkMoves
  <2>1. /\ c \in Call /\ Awaited(c) /\ walk[w].at \in 1 .. Len(Targets(w))
        /\ WalkTyped' /\ WalkKinds' /\ \A v \in Walker \ {w} : walk'[v] = walk[v]
    BY <1>4, LeaveWalkMoves
  <2>2. c.mode = "sync"
    BY <1>4 DEF LeaveWalk
  <2>3. ASSUME NEW d \in Pending', OfWalk(d), d.by = w PROVE FALSE
    <3>1. d \in Call /\ Awaited(d) /\ d \in Pending /\ d.mode = "sync"
      BY <1>2, <2>3 DEF WalkInv, PendingTyped, WalksWait, OfWalk
    <3>2. d = c
      BY <2>1, <2>2, <2>3, <3>1 DEF Call, Awaited
    <3>3. c \notin calls
      BY <1>1, <2>0, <2>2 DEF OfWalk, WalkInv, WalksWait
    <3> QED  BY <1>1, <2>3, <3>2, <3>3 DEF Pending
  <2>4. IF walk'[w].stage \in Walking THEN walk'[w].at \in 1 .. (Len(Targets(w)') + 1)
                                      ELSE walk'[w].at = 1
    <3>1. CASE walk'[w] = [stage |-> walk[w].stage, at |-> walk[w].at + 1, step |-> "look"]
      <4>1. Targets(w)' = Targets(w) /\ walk[w].stage \in Walking
        BY <2>0, <2>1, <3>1, TargetsStay DEF Awaited
      <4>2. Len(Targets(w)) \in Nat
        BY <2>0, <4>1, TargetsOf
      <4> QED  BY <2>1, <3>1, <4>1, <4>2
    <3>2. CASE \E s \in {"async", "done"} : walk'[w] = Begin(s)
      <4>1. walk'[w].at = 1
        BY <3>2 DEF Begin
      <4>2. ASSUME walk'[w].stage \in Walking PROVE Len(Targets(w)') \in Nat
        BY <2>0, <4>2, LengthNext
      <4> QED  BY <4>1, <4>2
    <3> QED  BY <1>4, <3>1, <3>2, LeaveWalkMoves
  <2>5. \A d \in Pending' : OfWalk(d) => IF d.by = w THEN Awaited(d)' ELSE d \in Pending
    BY <1>2, <2>3
  <2> QED  BY <1>2, <2>0, <2>1, <2>4, <2>5, WalkMovesOn
<1> QED  BY <1>3, <1>4

LEMMA WalkInvEnter ==
    ASSUME Locked, WalkInv, NEW c \in calls, LockAndEnter(c)
    PROVE  WalkInv'
<1>1. /\ calls' = calls \ {c} /\ running' = running \cup {c} /\ walk' = walk
  BY DEF LockAndEnter, walks
<1> QED  BY <1>1, WalksStay DEF PendingTyped, Pending, WalkInv, WalksWait, OfWalk

LEMMA WalkInvPage ==
    ASSUME FileInv, PageTyped, WalkInv, FileInv', Page \/ (\E e \in Event : Arrive(e))
    PROVE  WalkInv'
<1>. USE PluginAssumption DEF memory, file, locks, walks, loop
<1>1. ASSUME UNCHANGED <<walk, calls, running>> PROVE WalkInv'
  BY <1>1, WalksStay DEF PendingTyped, Pending, WalkInv, WalksWait, OfWalk
<1>2. ASSUME NEW d \in Call, ~OfWalk(d), calls' = calls \cup {d}, UNCHANGED <<walk, running>>
      PROVE  WalkInv'
  BY <1>2, WalksStay DEF PendingTyped, Pending, WalkInv, WalksWait, OfWalk
<1>3. ASSUME NEW w \in Walker, NEW s, walk'= [walk EXCEPT ![w] = Begin(s)], WalkKinds',
             \A c \in Pending : OfWalk(c) => c.by # w, UNCHANGED <<calls, running>>
      PROVE  WalkInv'
  <2>1. WalkTyped' /\ walk'[w] = Begin(s) /\ \A v \in Walker \ {w} : walk'[v] = walk[v]
    BY <1>3 DEF FileInv, WalkTyped
  <2>2. /\ PendingTyped' /\ \A d \in running' : OfWalk(d) => d \notin calls'
        /\ \A d \in Pending' : OfWalk(d) => d \in Pending /\ d.by # w
    BY <1>3 DEF PendingTyped, Pending, WalkInv, WalksWait, OfWalk
  <2>3. IF walk'[w].stage \in Walking THEN walk'[w].at \in 1 .. (Len(Targets(w)') + 1)
                                      ELSE walk'[w].at = 1
    <3>1. walk'[w].at = 1
      BY <2>1 DEF Begin
    <3>2. ASSUME walk'[w].stage \in Walking PROVE Len(Targets(w)') \in Nat
      BY <3>2, LengthNext
    <3> QED  BY <3>1, <3>2
  <2> QED  BY <1>3, <2>1, <2>2, <2>3, WalkMovesOn
<1>4. ASSUME NEW w \in Walker, walk[w].stage \notin Walking, NEW c \in Pending, OfWalk(c)
      PROVE  c.by # w
  BY <1>4 DEF WalkInv, WalksWait, Awaited
<1>5. CASE PressQuit
  <2>1. /\ walk' = [walk EXCEPT ![RunOnQuit] = Begin("on_quit")] /\ UNCHANGED <<calls, running>>
        /\ ui.at = "idle" /\ RunOnQuit \in Walker
    BY <1>5 DEF PressQuit, Take, IdleUI, Walker
  <2>2. walk[RunOnQuit].stage \notin Walking
    BY <2>1 DEF FileInv, Quitting, Walking
  <2>3. WalkKinds'
    BY <2>1 DEF WalkInv, WalkTyped, WalkKinds, Walker, Begin
  <2> QED  BY <1>3, <1>4, <2>1, <2>2, <2>3
<1>6. ASSUME NEW e \in Event, Arrive(e) PROVE WalkInv'
  <2>1. /\ walk' = [walk EXCEPT ![e] = Begin("sync")] /\ UNCHANGED <<calls, running>>
        /\ walk[e].stage = "idle" /\ e \in Walker
    BY <1>6 DEF Arrive, Walker
  <2>2. WalkKinds'
    BY <2>1 DEF WalkInv, WalkTyped, WalkKinds, Walker, Begin
  <2>3. walk[e].stage \notin Walking
    BY <2>1 DEF Walking
  <2> QED  BY <1>3, <1>4, <2>1, <2>2, <2>3
<1>7. CASE SaveFlip
  <2>0. PICK d : d = [plugin |-> ui.plugin, hook |-> "on_start", by |-> pressed,
                      mode |-> Mode[ui.plugin]["on_start"]]
    OBVIOUS
  <2>1. /\ ui.at = "saveFlip" /\ UNCHANGED <<walk, running>>
        /\ calls' = calls \/ (calls' = calls \cup {d} /\ d.mode # "none")
    BY <1>7, <2>0 DEF SaveFlip
  <2>2. ui.plugin \in Plugin /\ pressed \in Press
    BY <2>1 DEF PageTyped
  <2>3. d.mode # "none" => d \in Call
    BY <2>0, <2>2 DEF Call, Hook
  <2>4. ~OfWalk(d)
    BY <2>0, <2>2 DEF OfWalk, Walker, Press
  <2> QED  BY <1>1, <1>2, <2>1, <2>3, <2>4
<1>8. CASE SaveText
  <2>0. PICK d : d = [plugin |-> ui.plugin, hook |-> "on_config", by |-> pressed, mode |-> "sync"]
    OBVIOUS
  <2>1. ui.at = "saveText" /\ UNCHANGED <<walk, running>> /\ calls' = calls \cup {d}
    BY <1>8, <2>0 DEF SaveText
  <2>2. ui.plugin \in Plugin /\ pressed \in Press
    BY <2>1 DEF PageTyped, FileInv, Saving
  <2>3. d \in Call /\ ~OfWalk(d)
    BY <2>0, <2>2 DEF Call, Hook, OfWalk, Walker, Press
  <2> QED  BY <1>2, <2>1, <2>3
<1>9. CASE Exit
  <2>1. walk' = [w \in Walker |-> AtRest] /\ calls' = {} /\ running' = {}
    BY <1>9 DEF Exit
  <2>2. \A w \in Walker : walk'[w] = AtRest
    BY <2>1
  <2>3. WalkTyped' /\ WalkKinds' /\ Within'
    BY <2>2 DEF FileInv, WalkKinds, Walker, Within, AtRest, Walking
  <2> QED  BY <2>1, <2>3 DEF WalkInv, PendingTyped, Pending, WalksWait
<1>10. ASSUME NEW p, PressToggle(p) PROVE WalkInv'
  BY <1>1, <1>10 DEF PressToggle, Take
<1>11. ASSUME NEW p, NEW text, PressSave(p, text) PROVE WalkInv'
  BY <1>1, <1>11 DEF PressSave, Take
<1>12. CASE Flip \/ SetText
  BY <1>1, <1>12 DEF Flip, SetText
<1> QED
  BY <1>5, <1>6, <1>7, <1>8, <1>9, <1>10, <1>11, <1>12 DEF Page

LEMMA WalkInvStep ==
    FileInv /\ FileInv' /\ Locked /\ PageTyped /\ WalkInv /\ [Next]_vars => WalkInv'
<1>. SUFFICES ASSUME FileInv, FileInv', Locked, PageTyped, WalkInv, [Next]_vars PROVE WalkInv'
  OBVIOUS
<1>1. ASSUME NEW p \in Plugin, HookCallOf(p) PROVE WalkInv'
  BY <1>1, WalkInvEnter, WalkInvLeave DEF HookCallOf, HookCall
<1>2. CASE UNCHANGED vars
  <2>1. UNCHANGED <<walk, calls, running>>
    BY <1>2 DEF vars, walks, locks
  <2> QED  BY <2>1, WalksStay DEF PendingTyped, Pending, WalkInv, WalksWait, OfWalk
<1> QED  BY <1>1, <1>2, WalkInvPage, WalkInvGoroutine DEF Next, Rest

LEMMA WalkInvInit == Init => WalkInv /\ PageTyped
<1>. SUFFICES ASSUME Init PROVE WalkInv /\ PageTyped
  OBVIOUS
<1>. USE PluginAssumption
<1>1. PageTyped
  BY DEF Init, PageTyped, IdleUI
<1>2. WalkTyped /\ WalkKinds
  BY FileInvInit DEF Init, FileInv, WalkKinds, Walker, Begin, AtRest
<1>3. PendingTyped /\ WalksWait
  BY DEF Init, PendingTyped, Pending, WalksWait
<1>4. Within
  <2>1. \A w \in Walker : walk[w].at = 1
    BY DEF Init, Walker, Begin, AtRest
  <2>2. \A w \in Walker : walk[w].stage \in Walking => Len(Targets(w)) \in Nat
    BY TargetsOf
  <2> QED  BY <2>1, <2>2 DEF Within
<1> QED  BY <1>1, <1>2, <1>3, <1>4 DEF WalkInv
-----------------------------------------------------------------------------
(* Verdicts.                                                               *)

LEMMA StopsType ==
    \A h : Stops(h) \subseteq {"drop", "forward", "skip"}
BY DEF Stops

\* A step that is not of the walk of e, whatever it does to enabled.
LEMMA EventStays ==
    ASSUME NEW e \in Event, EventInv(e), walk'[e] = walk[e], verdict'[e] = verdict[e],
           said'[e] = said[e], steady'[e] \subseteq steady[e], alive' = "exited" \/ alive # "exited",
           walk[e].stage = "sync" => steady'[e] \subseteq enabled'
    PROVE  EventInv(e)'
<1>1. \A p : /\ Deciding(e, p)' <=> Deciding(e, p)
             /\ Heard(e, p) => Heard(e, p)'
  BY DEF Deciding, Heard
<1>2. Decided(e) => Decided(e)'
  BY <1>1 DEF Decided
<1>3. HeardAll(e) => HeardAll(e)'
  <2>1. Targets(e)' = Targets(e)
    BY TargetsStay DEF Walker
  <2> QED  BY <1>1, <2>1 DEF HeardAll
<1> QED  BY <1>1, <1>2, <1>3 DEF EventInv

\* A step of the walk of e that leaves everything else about e alone.
LEMMA EventMoves ==
    ASSUME NEW e \in Event, EventInv(e), UNCHANGED <<verdict, said, steady, enabled>>,
           walk[e].stage \in {"sync", "async"}, walk'[e].stage = walk[e].stage,
           walk[e].stage = "sync" => HeardAll(e)'
    PROVE  EventInv(e)'
<1>1. \A p : /\ Deciding(e, p)' <=> Deciding(e, p)
             /\ Heard(e, p)' <=> Heard(e, p)
  BY DEF Deciding, Heard
<1>2. Decided(e) => Decided(e)'
  BY <1>1 DEF Decided
<1> QED  BY <1>1, <1>2 DEF EventInv

LEMMA EventGoroutine ==
    ASSUME FileInv, WalkInv, NEW w \in Walker, Goroutine(w), NEW e \in Event, EventInv(e)
    PROVE  EventInv(e)'
<1>. USE PluginAssumption DEF memory, file, locks, walks, loop
<1>0. /\ UNCHANGED <<verdict, said, steady, enabled>>
      /\ walk[w].stage \in Walking
  BY DEF Goroutine, Skip, CallHook, SpawnHook, PassEnds, Looking
<1>1. /\ UNCHANGED <<verdict, said, steady, enabled>>
      /\ walk[w].stage \in Walking /\ alive # "exited"
  BY <1>0 DEF FileInv, Dead, Walking, AtRest
<1>2. /\ walk \in [Walker -> [stage : Stage, at : Nat, step : {"look", "blocked"}]]
      /\ e \in Walker
  BY DEF WalkInv, WalkTyped, Walker
<1>3. CASE w # e
  <2>1. \E r : walk' = [walk EXCEPT ![w] = r]
    BY DEF Goroutine, Skip, CallHook, SpawnHook, PassEnds, Step, MoveTo
  <2>2. walk'[e] = walk[e]
    BY <1>2, <1>3, <2>1
  <2>3. /\ verdict'[e] = verdict[e] /\ said'[e] = said[e] /\ steady'[e] \subseteq steady[e]
        /\ walk[e].stage = "sync" => steady'[e] \subseteq enabled'
    BY <1>1 DEF EventInv
  <2> QED  BY <1>1, <2>2, <2>3, EventStays
<1>4. CASE w = e
  <2>0. walk[e].stage \in {"sync", "async"} /\ walk[e].at \in Nat
    BY <1>1, <1>2, <1>4 DEF WalkInv, WalkKinds, Walking
  <2>1. ASSUME NEW at \in Nat, NEW step, MoveTo(e, at, step)
        PROVE  walk'[e] = [stage |-> walk[e].stage, at |-> at, step |-> step] /\ Targets(e)' = Targets(e)
    <3>1. walk'[e] = [stage |-> walk[e].stage, at |-> at, step |-> step]
      BY <1>2, <2>1 DEF MoveTo
    <3> QED  BY <1>2, <3>1, TargetsStay
  <2>2. \A p : Heard(e, p)' <=> Heard(e, p)
    BY <1>1 DEF Heard
  <2>3. CASE Skip(e)
    <3>1. walk'[e] = [stage |-> walk[e].stage, at |-> walk[e].at + 1, step |-> "look"] /\ Targets(e)' = Targets(e)
      BY <2>0, <2>1, <2>3, SMTT(30) DEF Skip, Step
    <3>2. ASSUME walk[e].stage = "sync" PROVE HeardAll(e)'
      <4>1. Heard(e, Targets(e)[walk[e].at])
        BY <2>3, <3>2 DEF Skip, Heard, EventInv
      <4>2. \A k \in 1 .. (walk[e].at - 1) : Heard(e, Targets(e)[k])
        BY <3>2 DEF EventInv, HeardAll
      <4>3. \A k \in 1 .. walk[e].at : Heard(e, Targets(e)[k])
        BY <2>0, <4>1, <4>2
      <4> QED  BY <2>0, <2>2, <3>1, <4>3 DEF HeardAll
    <3> QED  BY <1>1, <2>0, <3>1, <3>2, EventMoves
  <2>4. CASE CallHook(e)
    <3>1. walk'[e] = [stage |-> walk[e].stage, at |-> walk[e].at, step |-> "blocked"] /\ Targets(e)' = Targets(e)
      BY <2>0, <2>1, <2>4 DEF CallHook
    <3>2. walk[e].stage = "sync" => HeardAll(e)'
      BY <2>2, <3>1 DEF HeardAll, EventInv
    <3> QED  BY <1>1, <2>0, <3>1, <3>2, EventMoves
  <2>5. CASE SpawnHook(e)
    <3>1. walk'[e] = [stage |-> walk[e].stage, at |-> walk[e].at + 1, step |-> "look"]
      BY <2>0, <2>1, <2>5 DEF SpawnHook, Step
    <3>2. walk[e].stage # "sync"
      <4>1. /\ walk[e].at \in 1 .. Len(Targets(e))
            /\ Mode[Targets(e)[walk[e].at]][HookAt(e)] = "async"
        BY <1>2, <2>5, <1>1, <1>4 DEF SpawnHook, Looking, WalkInv, Within
      <4>2. Wants(e, Targets(e)[walk[e].at])
        BY <1>2, <4>1, TargetWants
      <4> QED  BY <4>1, <4>2 DEF Wants
    <3> QED  BY <1>1, <2>0, <3>1, <3>2, EventMoves
  <2>6. CASE PassEnds(e)
    <3>1. PICK s \in AfterAll(e) : walk' = [walk EXCEPT ![e] = Begin(s)]
      BY <2>6 DEF PassEnds
    <3>2. s \in {"async", "done"}
      BY <2>0 DEF AfterAll, After
    <3>3. walk'[e].stage \in {"async", "done"}
      BY <1>2, <3>1, <3>2 DEF Begin
    <3>4. ASSUME walk[e].stage = "sync", NEW p \in Plugin PROVE Heard(e, p)
      <4>. SUFFICES ASSUME Mode[p][HookOf[e]] = "sync" PROVE Heard(e, p)
        BY DEF Heard
      <4>1. Wants(e, p)
        BY <3>4 DEF Wants, HookAt
      <4>2. PICK k \in 1 .. Len(Targets(e)) : Targets(e)[k] = p
        BY <1>2, <4>1, TargetsAll
      <4>3. k \in 1 .. (walk[e].at - 1)
        <5>1. walk[e].at > Len(Targets(e)) /\ Len(Targets(e)) \in Nat
          BY <1>1, <1>2, <1>4, <2>6, TargetsOf DEF PassEnds
        <5> QED  BY <2>0, <5>1
      <4> QED  BY <3>4, <4>2, <4>3 DEF EventInv, HeardAll
    <3>5. Decided(e)
      BY <2>0, <3>4 DEF EventInv, Decided
    <3>6. Decided(e)'
      BY <1>1, <2>2, <3>5 DEF Decided, Deciding
    <3> QED  BY <3>3, <3>6 DEF EventInv
  <2> QED  BY <1>4, <2>3, <2>4, <2>5, <2>6 DEF Goroutine
<1> QED  BY <1>3, <1>4

LEMMA EventLeave ==
    ASSUME WalkInv, EventTyped, NEW c, NEW answer, LeaveAlone(c, answer) \/ LeaveWalk(c, answer)
    PROVE  EventTyped' /\ \A e \in Event : EventInv(e) => EventInv(e)'
<1>. USE PluginAssumption DEF EventTyped
<1>1. /\ answer \in Answers(c) /\ Narrow /\ alive' = alive
      /\ DisableIfFalse(c, answer)
  BY DEF LeaveAlone, LeaveWalk, loop
<1>2. answer \in Answer
  BY <1>1, StopsType DEF Answers, Answer
<1>3. /\ steady' \in [Event -> SUBSET Plugin]
      /\ \A e \in Event : /\ steady'[e] \subseteq steady[e]
                          /\ walk[e].stage = "sync" => steady'[e] \subseteq enabled'
  BY <1>1 DEF Narrow
<1>4. CASE LeaveAlone(c, answer)
  <2>1. UNCHANGED <<walk, verdict, said>>
    BY <1>4 DEF LeaveAlone
  <2> QED  BY <1>1, <1>3, <2>1, EventStays
<1>5. CASE LeaveWalk(c, answer)
  <2>. DEFINE w == c.by
              p == c.plugin
  <2>1. /\ verdict' = IF answer \in Stops(c.hook) THEN [verdict EXCEPT ![w] = answer] ELSE verdict
        /\ said' = IF w \in Event THEN [said EXCEPT ![w][p] = answer] ELSE said
    BY <1>5 DEF LeaveWalk
  <2>2. /\ w \in Walker /\ p \in Plugin /\ Awaited(c) /\ walk[w].at \in 1 .. Len(Targets(w))
        /\ \A v \in Walker \ {w} : walk'[v] = walk[v]
        /\ walk \in [Walker -> [stage : Stage, at : Nat, step : {"look", "blocked"}]]
    BY <1>5, LeaveWalkMoves DEF WalkInv, WalkTyped
  <2>3. /\ p = Targets(w)[walk[w].at] /\ c.hook = HookAt(w)
        /\ walk[w].stage \in Walking \ {"async"}
    BY <2>2 DEF Awaited
  <2>4. EventTyped'
    <3>1. answer \in Stops(c.hook) => answer \in {"intercept", "drop", "forward", "skip"}
      BY StopsType
    <3>2. verdict' \in [Event -> {"intercept", "drop", "forward", "skip"}]
      BY <2>1, <3>1
    <3>3. said' \in [Event -> [Plugin -> Answer \cup {"unasked"}]]
      BY <1>2, <2>1, <2>2
    <3> QED  BY <1>3, <3>2, <3>3
  <2>5. ASSUME NEW e \in Event, EventInv(e), e # w PROVE EventInv(e)'
    <3>1. verdict'[e] = verdict[e] /\ said'[e] = said[e] /\ walk'[e] = walk[e]
      BY <2>1, <2>2, <2>5 DEF Walker
    <3> QED  BY <1>1, <1>3, <2>5, <3>1, EventStays
  <2>6. ASSUME NEW e \in Event, EventInv(e), e = w PROVE EventInv(e)'
    <3>1. /\ walk[e].stage = "sync" /\ c.hook = HookOf[e]
          /\ verdict[e] = "intercept" /\ (\A q \in Plugin : ~Deciding(e, q)) /\ HeardAll(e)
      <4>1. walk[e].stage = "sync"
        BY <2>3, <2>6 DEF WalkInv, WalkKinds, Walking
      <4> QED  BY <2>3, <2>6, <4>1 DEF HookAt, EventInv
    <3>2. /\ said'[e][p] = answer /\ \A q \in Plugin \ {p} : said'[e][q] = said[e][q]
          /\ answer # "unasked"
      BY <1>2, <2>1, <2>2, <2>6 DEF Answer
    <3>3. \A q \in Plugin : Heard(e, q) \/ q = p => Heard(e, q)'
      BY <1>3, <3>2 DEF Heard
    <3>4. \A q \in Plugin \ {p} : ~Deciding(e, q)'
      BY <3>1, <3>2 DEF Deciding
    <3>5. \A k \in 1 .. Len(Targets(e)) : Targets(e)[k] \in Plugin
      BY <2>2, <2>3, <2>6, TargetsOf
    <3>6. CASE answer \notin Stops(c.hook)
      <4>1. walk'[e] = [stage |-> "sync", at |-> walk[e].at + 1, step |-> "look"]
        BY <1>5, <2>6, <3>1, <3>6, LeaveWalkMoves
      <4>2. Targets(e)' = Targets(e)
        BY <2>2, <2>6, <3>1, <4>1, TargetsStay
      <4>3. ASSUME NEW k \in 1 .. walk[e].at, NEW q \in Plugin, q = Targets(e)[k]
            PROVE  Heard(e, q)'
        <5>1. CASE k = walk[e].at
          BY <2>3, <2>6, <3>3, <4>3, <5>1
        <5>2. CASE k # walk[e].at
          <6>1. k \in 1 .. (walk[e].at - 1)
            BY <2>2, <2>6, <5>2
          <6> QED  BY <3>1, <3>3, <4>3, <6>1 DEF HeardAll
        <5> QED  BY <5>1, <5>2
      <4>4. HeardAll(e)'
        <5>1. walk'[e].at - 1 = walk[e].at /\ walk[e].at \in 1 .. Len(Targets(e))
          BY <2>2, <2>6, <4>1
        <5>2. \A k \in 1 .. walk[e].at : Targets(e)[k] \in Plugin
          <6>1. Len(Targets(e)) \in Nat
            BY <2>2, <2>3, <2>6, TargetsOf
          <6> QED  BY <3>5, <5>1, <6>1
        <5> QED  BY <4>2, <4>3, <5>1, <5>2 DEF HeardAll
      <4>5. \A q \in Plugin : ~Deciding(e, q)'
        BY <3>1, <3>2, <3>4, <3>6 DEF Deciding
      <4>6. verdict'[e] = "intercept"
        BY <2>1, <3>1, <3>6
      <4> QED  BY <1>3, <3>1, <4>1, <4>4, <4>5, <4>6 DEF EventInv
    <3>7. CASE answer \in Stops(c.hook)
      <4>1. PICK s \in {"async", "done"} : walk'[e] = Begin(s)
        BY <1>5, <2>6, <3>7, LeaveWalkMoves
      <4>2. verdict'[e] = answer /\ answer # "intercept"
        BY <2>1, <2>6, <3>7, StopsType
      <4>3. PICK i \in DOMAIN Order :
               /\ p = Order[i] /\ Wants(e, Order[i])
               /\ \A j \in 1 .. (i - 1) : Wants(e, Order[j]) =>
                    \E l \in 1 .. (walk[e].at - 1) : Targets(e)[l] = Order[j]
        BY <2>2, <2>3, <2>6, TargetWants
      <4>4. ASSUME NEW j \in 1 .. (i - 1)
            PROVE  Heard(e, Order[j])' /\ ~Deciding(e, Order[j])'
        <5>1. j \in DOMAIN Order /\ j # i /\ Order[j] \in Plugin
          BY <4>4
        <5>2. Order[j] # p
          BY <4>3, <5>1
        <5>3. Heard(e, Order[j])
          <6>. SUFFICES ASSUME Mode[Order[j]][HookOf[e]] = "sync" PROVE Heard(e, Order[j])
            BY DEF Heard
          <6>1. Wants(e, Order[j])
            BY <3>1 DEF Wants, HookAt
          <6> QED  BY <3>1, <4>3, <6>1 DEF HeardAll
        <5>4. PICK q \in Plugin : q = Order[j]
          BY <5>1
        <5> QED  BY <3>3, <3>4, <5>2, <5>3, <5>4
      <4>5. said'[e][Order[i]] = verdict'[e]
        BY <3>2, <4>2, <4>3
      <4>6. Decided(e)'
        BY <4>2, <4>4, <4>5 DEF Decided
      <4> QED  BY <4>1, <4>6 DEF EventInv, Begin
    <3> QED  BY <3>6, <3>7
  <2> QED  BY <2>4, <2>5, <2>6
<1> QED  BY <1>4, <1>5

LEMMA EventOther ==
    ASSUME FileInv, WalkInv, EventTyped, PageTyped,
           Page \/ (\E d \in Event : Arrive(d)) \/ (\E c \in calls : LockAndEnter(c)) \/ UNCHANGED vars
    PROVE  EventTyped' /\ \A e \in Event : EventInv(e) => EventInv(e)'
<1>. USE PluginAssumption DEF EventTyped, memory, file, locks, walks, loop
<1>0. walk \in [Walker -> [stage : Stage, at : Nat, step : {"look", "blocked"}]]
  BY DEF WalkInv, WalkTyped
<1>1. ASSUME UNCHANGED <<walk, verdict, said, steady, enabled>>, alive' = alive
      PROVE  EventTyped' /\ \A e \in Event : EventInv(e) => EventInv(e)'
  <2>1. ASSUME NEW e \in Event, EventInv(e)
        PROVE  /\ walk'[e] = walk[e] /\ verdict'[e] = verdict[e] /\ said'[e] = said[e]
               /\ steady'[e] \subseteq steady[e] /\ (alive' = "exited" \/ alive # "exited")
               /\ walk[e].stage = "sync" => steady'[e] \subseteq enabled'
    BY <1>1, <2>1 DEF EventInv
  <2> QED  BY <1>1, <2>1, EventStays
<1>2. CASE PressQuit
  <2>1. ASSUME NEW e \in Event, EventInv(e)
        PROVE  /\ walk'[e] = walk[e] /\ verdict'[e] = verdict[e] /\ said'[e] = said[e]
               /\ steady'[e] \subseteq steady[e] /\ alive # "exited"
               /\ walk[e].stage = "sync" => steady'[e] \subseteq enabled'
    BY <1>0, <1>2, <2>1 DEF PressQuit, Take, EventInv, Walker
  <2>2. UNCHANGED <<verdict, said, steady>>
    BY <1>2 DEF PressQuit
  <2> QED  BY <2>1, <2>2, EventStays
<1>3. CASE Flip
  <2>1. /\ Narrow /\ UNCHANGED <<walk, verdict, said, alive>>
    BY <1>3 DEF Flip
  <2>2. steady' \in [Event -> SUBSET Plugin]
    BY <2>1 DEF Narrow
  <2>3. ASSUME NEW e \in Event, EventInv(e)
        PROVE  /\ walk'[e] = walk[e] /\ verdict'[e] = verdict[e] /\ said'[e] = said[e]
               /\ steady'[e] \subseteq steady[e] /\ (alive' = "exited" \/ alive # "exited")
               /\ walk[e].stage = "sync" => steady'[e] \subseteq enabled'
    BY <2>1 DEF Narrow
  <2> QED  BY <2>1, <2>2, <2>3, EventStays
<1>4. CASE Exit
  <2>1. \A e \in Event : walk'[e].stage = "idle" /\ alive' = "exited"
    BY <1>4 DEF Exit, Walker, AtRest
  <2>2. UNCHANGED <<verdict, said, steady>>
    BY <1>4 DEF Exit
  <2> QED  BY <2>1, <2>2 DEF EventInv
<1>5. ASSUME NEW d \in Event, Arrive(d)
      PROVE  EventTyped' /\ \A e \in Event : EventInv(e) => EventInv(e)'
  <2>1. /\ walk[d].stage = "idle" /\ walk' = [walk EXCEPT ![d] = Begin("sync")]
        /\ steady' = [steady EXCEPT ![d] = enabled] /\ alive # "exited"
        /\ UNCHANGED <<enabled, verdict, said, alive>>
    BY <1>5 DEF Arrive
  <2>2. EventTyped'
    BY <2>1 DEF PageTyped
  <2>3. ASSUME NEW e \in Event, EventInv(e), e # d PROVE EventInv(e)'
    <3>1. walk'[e] = walk[e] /\ steady'[e] = steady[e]
      BY <1>0, <2>1, <2>3 DEF Walker
    <3>2. walk[e].stage = "sync" => steady'[e] \subseteq enabled'
      BY <2>1, <2>3, <3>1 DEF EventInv
    <3> QED  BY <2>1, <2>3, <3>1, <3>2, EventStays
  <2>4. ASSUME EventInv(d) PROVE EventInv(d)'
    <3>1. walk'[d] = Begin("sync") /\ steady'[d] = enabled'
      BY <1>0, <2>1 DEF Walker
    <3>2. verdict'[d] = "intercept" /\ \A p \in Plugin : ~Deciding(d, p)'
      BY <2>1, <2>4 DEF EventInv, Deciding
    <3>3. HeardAll(d)'
      BY <3>1 DEF HeardAll, Begin
    <3> QED  BY <3>1, <3>2, <3>3 DEF EventInv, Begin
  <2> QED  BY <2>2, <2>3, <2>4
<1>6. ASSUME NEW c \in calls, LockAndEnter(c)
      PROVE  UNCHANGED <<walk, verdict, said, steady, enabled>> /\ alive' = alive
  BY <1>6 DEF LockAndEnter
<1>7. ASSUME NEW p, PressToggle(p)
      PROVE  UNCHANGED <<walk, verdict, said, steady, enabled>> /\ alive' = alive
  BY <1>7 DEF PressToggle, Take
<1>8. ASSUME NEW p, NEW text, PressSave(p, text)
      PROVE  UNCHANGED <<walk, verdict, said, steady, enabled>> /\ alive' = alive
  BY <1>8 DEF PressSave, Take
<1>9. CASE SaveFlip \/ SetText \/ SaveText \/ UNCHANGED vars
  <2>1. UNCHANGED <<walk, verdict, said, steady, enabled>> /\ alive' = alive
    BY <1>9 DEF SaveFlip, SetText, SaveText, vars
  <2> QED  BY <1>1, <2>1
<1> QED  BY <1>1, <1>2, <1>3, <1>4, <1>5, <1>6, <1>7, <1>8, <1>9 DEF Page

LEMMA EventsInvStep ==
    FileInv /\ PageTyped /\ WalkInv /\ EventsInv /\ [Next]_vars => EventsInv'
<1>. SUFFICES ASSUME FileInv, PageTyped, WalkInv, EventsInv, [Next]_vars PROVE EventsInv'
  OBVIOUS
<1>1. EventTyped /\ \A e \in Event : EventInv(e)
  BY DEF EventsInv
<1>. SUFFICES EventTyped' /\ \A e \in Event : EventInv(e) => EventInv(e)'
  BY <1>1 DEF EventsInv
<1>2. ASSUME NEW w \in Walker, Goroutine(w)
      PROVE  EventTyped' /\ \A e \in Event : EventInv(e) => EventInv(e)'
  <2>1. UNCHANGED <<verdict, said, steady>>
    BY <1>2 DEF Goroutine, Skip, CallHook, SpawnHook, PassEnds
  <2>2. EventTyped'
    BY <1>1, <2>1 DEF EventTyped
  <2> QED  BY <1>2, <2>2, EventGoroutine
<1>3. ASSUME NEW p \in Plugin, HookCallOf(p)
      PROVE  EventTyped' /\ \A e \in Event : EventInv(e) => EventInv(e)'
  BY <1>1, <1>3, EventLeave, EventOther DEF HookCallOf, HookCall
<1>4. ASSUME Page \/ (\E d \in Event : Arrive(d)) \/ UNCHANGED vars
      PROVE  EventTyped' /\ \A e \in Event : EventInv(e) => EventInv(e)'
  BY <1>1, <1>4, EventOther
<1> QED  BY <1>2, <1>3, <1>4 DEF Next, Rest

LEMMA EventsInvInit == Init => EventsInv
<1>. SUFFICES ASSUME Init PROVE EventsInv
  OBVIOUS
<1>1. EventTyped
  BY DEF Init, EventTyped, Unasked
<1>2. ASSUME NEW e \in Event PROVE EventInv(e)
  <2>1. walk[e].stage = "idle"
    BY PluginAssumption DEF Init, Walker, AtRest, Begin
  <2>2. verdict[e] = "intercept" /\ \A p \in Plugin : said[e][p] = "unasked"
    BY DEF Init, Unasked
  <2> QED  BY <2>1, <2>2, StopsType DEF EventInv, Deciding
<1> QED  BY <1>1, <1>2 DEF EventsInv
-----------------------------------------------------------------------------
(* The plugins page and the plugins that disable themselves.               *)

LEMMA SwitchStays ==
    ASSUME SwitchInv, UNCHANGED <<enabled, fileOn, refusal, shown>>,
           Pending \subseteq Pending', alive = "exited" => alive' = "exited",
           ui' = ui \/ (ui.at \notin {"flip", "saveFlip"} /\ ui'.at \notin {"flip", "saveFlip"})
    PROVE  SwitchInv'
BY DEF SwitchInv, ToStart

LEMMA SwitchGoroutine ==
    ASSUME FileInv, SwitchInv, NEW w \in Walker, Goroutine(w)
    PROVE  SwitchInv'
<1>. USE PluginAssumption DEF memory, file, locks, walks, loop
<1>1. /\ walk[w].stage \in Walking /\ UNCHANGED <<enabled, fileOn, refusal, shown>>
      /\ calls \subseteq calls' /\ running' = running
  BY DEF Goroutine, Skip, CallHook, SpawnHook, PassEnds, Looking
<1>2. alive # "exited" /\ Pending \subseteq Pending'
  BY <1>1 DEF FileInv, Dead, Walking, AtRest, Pending
<1>3. ui' = ui \/ (ui.at = "quit" /\ ui' = IdleUI)
  <2>1. PassEnds(w) /\ w = RunOnQuit => ui.at = "quit" /\ ui' = IdleUI
    BY <1>1 DEF PassEnds, FileInv, Quitting, Walking
  <2> QED  BY <2>1 DEF Goroutine, Skip, CallHook, SpawnHook, PassEnds
<1> QED  BY <1>1, <1>2, <1>3, SwitchStays DEF IdleUI

LEMMA SwitchLeave ==
    ASSUME FileInv, SwitchInv, NEW c, NEW answer, LeaveAlone(c, answer) \/ LeaveWalk(c, answer)
    PROVE  SwitchInv'
<1>. USE DEF memory, file, locks, walks, loop
<1>1. /\ c \in running /\ DisableIfFalse(c, answer) /\ Note(c, answer)
      /\ Pending \subseteq Pending' \cup {c} /\ UNCHANGED <<shown, alive>>
  BY DEF LeaveAlone, LeaveWalk, Pending
<1>2. ui' = ui \/ (ui.at = "blocked" /\ ui' = IdleUI)
  BY <1>1 DEF LeaveAlone, LeaveWalk, FileInv, UIWaits, OfUI, Pending
<1>3. \A p \in Plugin :
        refusal'[p] =
          IF c.hook # "on_start" \/ p # c.plugin THEN refusal[p]
          ELSE IF answer = "false" THEN IF SwitchingOn(p) THEN "overtook" ELSE "last"
               ELSE IF refusal[p] = "last" THEN "earlier" ELSE refusal[p]
  BY <1>1, Noted DEF FileInv, Refused
<1>4. ASSUME NEW p \in Plugin, c.hook = "on_start", p = c.plugin, answer = "false"
      PROVE  refusal'[p] # "never" /\ p \notin enabled' \cup fileOn'
  BY <1>1, <1>3, <1>4 DEF DisableIfFalse
<1>5. ASSUME NEW p \in Plugin, ~(c.hook = "on_start" /\ p = c.plugin /\ answer = "false")
      PROVE  /\ p \in enabled' <=> p \in enabled
             /\ p \in fileOn' <=> p \in fileOn
             /\ refusal'[p] \in {"never", "last"} => refusal'[p] = refusal[p]
             /\ refusal'[p] = "last" => ~(c.hook = "on_start" /\ p = c.plugin)
             /\ (ui'.at = "flip" /\ ui'.plugin = p) <=> (ui.at = "flip" /\ ui.plugin = p)
  BY <1>1, <1>2, <1>3, <1>5 DEF DisableIfFalse, IdleUI
<1>6. ASSUME NEW p \in Plugin, ToStart(p), ~(c.hook = "on_start" /\ p = c.plugin)
      PROVE  ToStart(p)'
  BY <1>1, <1>2, <1>6 DEF ToStart, IdleUI
<1>7. ASSUME NEW p \in Plugin, refusal'[p] = "never"
      PROVE  (p \in enabled' <=> p \in shown') <=> ~(ui'.at = "flip" /\ ui'.plugin = p)
  BY <1>1, <1>4, <1>5, <1>7 DEF SwitchInv
<1>8. ASSUME NEW p \in Plugin, refusal'[p] = "last", p \in enabled' \cup fileOn'
      PROVE  ToStart(p)'
  BY <1>4, <1>5, <1>6, <1>8 DEF SwitchInv
<1> QED  BY <1>7, <1>8 DEF SwitchInv

LEMMA SwitchOther ==
    ASSUME FileInv, SwitchInv,
           Page \/ (\E d \in Event : Arrive(d)) \/ (\E c \in calls : LockAndEnter(c)) \/ UNCHANGED vars
    PROVE  SwitchInv'
<1>. USE DEF memory, file, locks, walks, loop
<1>1. ASSUME NEW p \in Plugin, PressToggle(p) PROVE SwitchInv'
  <2>1. /\ ui.at = "idle" /\ ui' = [at |-> "flip", plugin |-> p, value |-> NoValue]
        /\ shown' = IF p \in shown THEN shown \ {p} ELSE shown \cup {p}
        /\ UNCHANGED <<enabled, fileOn, refusal, calls, running, alive>>
    BY <1>1 DEF PressToggle, Take, IdleUI
  <2>2. \A q \in Plugin : ToStart(q) => ToStart(q)'
    BY <2>1 DEF ToStart, Pending
  <2>3. \A q \in Plugin : (q \in shown' <=> q \in shown) <=> q # p
    BY <2>1
  <2> QED  BY <2>1, <2>2, <2>3 DEF SwitchInv
<1>2. CASE Flip
  <2>1. /\ ui.at = "flip" /\ ui'.at = "saveFlip" /\ ui'.plugin = ui.plugin
        /\ enabled' = IF ui.plugin \in enabled THEN enabled \ {ui.plugin} ELSE enabled \cup {ui.plugin}
        /\ refusal' = [refusal EXCEPT ![ui.plugin] =
                          IF refusal[ui.plugin] = "overtook" THEN "earlier" ELSE refusal[ui.plugin]]
        /\ UNCHANGED <<fileOn, shown, calls, running, alive>>
    BY <1>2 DEF Flip
  <2>2. \A q \in Plugin : ToStart(q) \/ q = ui.plugin => ToStart(q)'
    BY <2>1 DEF ToStart, Pending
  <2>3. \A q \in Plugin : (q \in enabled' <=> q \in enabled) <=> q # ui.plugin
    BY <2>1
  <2>4. \A q \in Plugin : refusal'[q] \in {"never", "last"} => refusal'[q] = refusal[q]
    BY <2>1 DEF FileInv, Refused
  <2> QED  BY <2>1, <2>2, <2>3, <2>4 DEF SwitchInv
<1>3. CASE SaveFlip
  <2>0. PICK d : d = [plugin |-> ui.plugin, hook |-> "on_start", by |-> pressed,
                      mode |-> Mode[ui.plugin]["on_start"]]
    OBVIOUS
  <2>1. /\ ui.at = "saveFlip" /\ UNCHANGED <<running, enabled, refusal, shown, alive>>
        /\ calls' = IF ui.value = "on" /\ d.mode # "none" THEN calls \cup {d} ELSE calls
        /\ fileOn' = IF ui.value = "on" THEN fileOn \cup {ui.plugin} ELSE fileOn \ {ui.plugin}
        /\ ui' = [ui EXCEPT !.at = "blocked"] \/ ui' = IdleUI
    BY <1>3, <2>0 DEF SaveFlip
  <2>2. ui'.at \in {"blocked", "idle"}
    BY <2>1 DEF FileInv, UI, IdleUI
  <2>3. ASSUME NEW q \in Plugin, refusal[q] = "last", q \in enabled' \cup fileOn' PROVE ToStart(q)'
    <3>1. CASE q = ui.plugin
      <4>1. ui.value = "on" /\ d.mode # "none"
        BY <2>0, <2>1, <2>3, <3>1 DEF FileInv, Toggling, Refused
      <4>2. d \in Pending' /\ d.plugin = q /\ d.hook = "on_start"
        BY <2>0, <2>1, <3>1, <4>1 DEF Pending
      <4> QED  BY <4>2 DEF ToStart
    <3>2. CASE q # ui.plugin
      <4>1. ToStart(q)
        BY <2>1, <2>3, <3>2 DEF SwitchInv
      <4>2. Pending \subseteq Pending'
        BY <2>1 DEF Pending
      <4> QED  BY <2>1, <3>2, <4>1, <4>2 DEF ToStart
    <3> QED  BY <3>1, <3>2
  <2> QED  BY <2>1, <2>2, <2>3 DEF SwitchInv
<1>4. CASE Exit
  <2>1. /\ ui' = ui /\ ui.at = "idle" /\ alive' = "exited"
        /\ UNCHANGED <<enabled, fileOn, refusal, shown>>
    BY <1>4 DEF Exit, IdleUI
  <2> QED  BY <2>1 DEF SwitchInv, ToStart
<1>5. ASSUME NEW p, NEW text, PressSave(p, text) PROVE SwitchInv'
  BY <1>5, SwitchStays DEF PressSave, Take, IdleUI, Pending
<1>6. CASE PressQuit
  BY <1>6, SwitchStays DEF PressQuit, Take, IdleUI, Pending
<1>7. CASE SetText \/ SaveText
  <2>1. /\ ui.at \in {"setText", "saveText"} /\ calls \subseteq calls'
        /\ UNCHANGED <<running, enabled, fileOn, refusal, shown, alive>>
        /\ ui' = [ui EXCEPT !.at = "saveText"] \/ ui' = [ui EXCEPT !.at = "blocked"]
    BY <1>7 DEF SetText, SaveText
  <2>2. ui'.at \in {"blocked", "saveText"}
    BY <2>1 DEF FileInv, UI
  <2> QED  BY <2>1, <2>2, SwitchStays DEF Pending
<1>8. ASSUME NEW e \in Event, Arrive(e) PROVE SwitchInv'
  BY <1>8, SwitchStays DEF Arrive, Pending
<1>9. ASSUME NEW c \in calls, LockAndEnter(c) PROVE SwitchInv'
  BY <1>9, SwitchStays DEF LockAndEnter, Pending
<1>10. CASE UNCHANGED vars
  BY <1>10, SwitchStays DEF vars, Pending
<1> QED  BY <1>1, <1>2, <1>3, <1>4, <1>5, <1>6, <1>7, <1>8, <1>9, <1>10 DEF Page

LEMMA SwitchInvStep == FileInv /\ SwitchInv /\ [Next]_vars => SwitchInv'
<1>. SUFFICES ASSUME FileInv, SwitchInv, [Next]_vars PROVE SwitchInv'
  OBVIOUS
<1>1. ASSUME NEW p \in Plugin, HookCallOf(p) PROVE SwitchInv'
  BY <1>1, SwitchLeave, SwitchOther DEF HookCallOf, HookCall
<1> QED  BY <1>1, SwitchGoroutine, SwitchOther DEF Next, Rest

LEMMA SwitchInvInit == Init => SwitchInv
BY DEF Init, SwitchInv, IdleUI
-----------------------------------------------------------------------------
LEMMA LockedTypedStep == WalkInv /\ locked \subseteq Plugin /\ [Next]_vars => (locked \subseteq Plugin)'
<1>. SUFFICES ASSUME WalkInv, locked \subseteq Plugin, [Next]_vars PROVE locked' \subseteq Plugin
  OBVIOUS
<1>. USE DEF memory, file, locks, walks, loop
<1>1. ASSUME NEW c \in calls, LockAndEnter(c) PROVE locked' \subseteq Plugin
  <2>1. c.plugin \in Plugin
    BY DEF WalkInv, PendingTyped, Pending, Call
  <2> QED  BY <1>1, <2>1 DEF LockAndEnter
<1>2. ASSUME NEW c, NEW answer, LeaveAlone(c, answer) \/ LeaveWalk(c, answer)
      PROVE  locked' \subseteq Plugin
  BY <1>2 DEF LeaveAlone, LeaveWalk, Release
<1>3. ASSUME Page \/ UNCHANGED vars PROVE locked' \subseteq Plugin
  <2>1. locked' = locked
    BY <1>3 DEF Page, PressToggle, PressSave, PressQuit, Take, Flip, SaveFlip, SetText,
                SaveText, Exit, vars
  <2> QED  BY <2>1
<1>4. ASSUME NEW w, Goroutine(w) \/ Arrive(w) PROVE locked' \subseteq Plugin
  BY <1>4 DEF Goroutine, Skip, CallHook, SpawnHook, PassEnds, Arrive
<1> QED  BY <1>1, <1>2, <1>3, <1>4 DEF Next, Rest, HookCallOf, HookCall

-----------------------------------------------------------------------------
(* All of it together.                                                     *)

ManagerInv ==
    /\ FileInv /\ Locked /\ Told
    /\ PageTyped /\ WalkInv /\ EventsInv /\ SwitchInv /\ locked \subseteq Plugin

\* Who walks over the plugins, who is inside a hook, what an event has been
\* answered and what the event loop is about to do always fit together.
THEOREM ManagerInvariance == Spec => []ManagerInv
<1>1. Init => ManagerInv
  <2>1. Init => Locked
    BY DEF Init, Locked, LuaExclusive
  <2>2. Init => Told
    BY PluginAssumption DEF Init, Told
  <2>3. Init => locked \subseteq Plugin
    BY DEF Init
  <2> QED
    BY <2>1, <2>2, <2>3, FileInvInit, WalkInvInit, EventsInvInit, SwitchInvInit DEF ManagerInv
<1>2. ManagerInv /\ [Next]_vars => ManagerInv'
  BY FileInvStep, LockedStep, ToldStep, PageTypedStep, WalkInvStep, EventsInvStep,
     SwitchInvStep, LockedTypedStep DEF ManagerInv
<1> QED  BY <1>1, <1>2, PTL DEF Spec

\* Every part of the manager's state, the hook calls and the walks included,
\* has its type; what is hard in it is that a walk never goes beyond the list
\* of the plugins it calls.
THEOREM TypeCorrect == Spec => []TypeOK
<1>1. ManagerInv => TypeOK
  <2>. SUFFICES ASSUME ManagerInv PROVE TypeOK
    OBVIOUS
  <2>. USE DEF ManagerInv
  <2>1. walk \in [Walker -> Walk]
    <3>1. walk \in [Walker -> [stage : Stage, at : Nat, step : {"look", "blocked"}]]
      BY DEF WalkInv, WalkTyped
    <3>2. ASSUME NEW w \in Walker PROVE walk[w] \in Walk
      <4>1. Len(Order) \in Nat
        BY PluginAssumption
      <4>2. walk[w].at \in 1 .. (Len(Order) + 1)
        BY <4>1, TargetsOf DEF WalkInv, Within
      <4> QED  BY <3>1, <4>2 DEF Walk
    <3> QED  BY <3>1, <3>2
  <2>2. calls \subseteq Call /\ running \subseteq Call
    BY DEF WalkInv, PendingTyped, Pending
  <2> QED
    BY <2>1, <2>2 DEF TypeOK, FileInv, ConfigTyped, PageTyped, EventsInv, EventTyped, Told,
                        Refused
<1> QED  BY <1>1, ManagerInvariance, PTL

\* The answer of the first plugin that decides, by priority, is the verdict on
\* an event, although every plugin may be switched on or off between any two
\* steps of the walk that asks them.
THEOREM VerdictCorrect == Spec => []VerdictByPriority
<1>1. ManagerInv => VerdictByPriority
  <2>. SUFFICES ASSUME ManagerInv, NEW e \in Event, walk[e].stage \in {"async", "done"}
                PROVE  /\ verdict[e] = "intercept" =>
                            \A p \in Plugin : Heard(e, p) /\ ~Deciding(e, p)
                       /\ verdict[e] # "intercept" =>
                            \E i \in DOMAIN Order :
                              /\ said[e][Order[i]] = verdict[e]
                              /\ \A j \in 1 .. (i - 1) : Heard(e, Order[j]) /\ ~Deciding(e, Order[j])
    BY DEF VerdictByPriority, Heard, Deciding
  <2> QED  BY DEF ManagerInv, EventsInv, EventInv, Decided
<1> QED  BY <1>1, ManagerInvariance, PTL

\* However it was switched on, a plugin whose last on_start answered false is
\* off in memory and in plugins.yaml when it is calm, and one whose on_start
\* never answered false is what the plugins page shows.
THEOREM SelfDisabledCorrect == Spec => []SelfDisabledStaysOff
<1>1. ManagerInv => SelfDisabledStaysOff
  <2>. SUFFICES ASSUME ManagerInv, Calm, NEW p \in Plugin
                PROVE  /\ refusal[p] = "last" => p \notin enabled \cup fileOn
                       /\ refusal[p] = "never" => (p \in enabled <=> p \in shown)
    BY DEF SelfDisabledStaysOff
  <2>1. ui.at = "idle" /\ walk[RunOnStart].stage = "done"
    BY DEF Calm, IdleUI
  <2>2. \A c \in Pending : c.hook # "on_start"
    BY DEF Calm, Pending
  <2>3. alive # "exited"
    BY <2>1 DEF ManagerInv, FileInv, Dead, Walker, AtRest
  <2>4. ~ToStart(p)
    BY <2>1, <2>2, <2>3 DEF ToStart
  <2> QED  BY <2>1, <2>4 DEF ManagerInv, SwitchInv
<1> QED  BY <1>1, ManagerInvariance, PTL
=============================================================================
