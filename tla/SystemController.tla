-------------------------- MODULE SystemController --------------------------
(***************************************************************************)
(* The Swift process that controls the desktop: SystemController with its  *)
(* ActionLogger, RateLimiter and PermissionManager, driven by the requests *)
(* that MCPBridge routes.  It is one thread: a request is answered before  *)
(* the next line is read.                                                  *)
(*                                                                         *)
(* An entry of the log is the number of the action; a file is the sequence *)
(* of its entries, number 0 is the one that is written and number i is     *)
(* "<log>.i".  Time is counted in fractions of a second.                   *)
(***************************************************************************)
EXTENDS Naturals, FiniteSets, Sequences, SequencesExt

CONSTANTS MaxClicks,     \* maxClicksPerSecond
          MaxKeys,       \* maxKeysPerSecond
          Second,        \* clock ticks in a second
          MaxLogFiles,   \* maxLogFiles
          LogLimit,      \* maxLogSize, in entries
          TextLengths,   \* the lengths of the texts that are typed
          MaxTime,       \* bound: the clock stops here
          MaxEntries,    \* bound: logged actions
          NoFile

ASSUME ControllerAssumption ==
    /\ MaxClicks \in Nat /\ MaxKeys \in Nat /\ Second \in Nat \ {0} /\ MaxLogFiles \in Nat \ {0}
    /\ LogLimit \in Nat /\ TextLengths \subseteq Nat /\ MaxTime \in Nat /\ MaxEntries \in Nat
    /\ NoFile \notin Seq(Nat)

\* The levels of PermissionLevel that the requests ask for, and none of them.
Levels == {"sandboxed", "automation", "accessibility"}
LogFiles == 0 .. MaxLogFiles
LastStep == MaxLogFiles + 1

Times == 0 .. MaxTime

VARIABLES level,      \* PermissionManager._currentLevel
          clock,      \* Date()
          clicks,     \* RateLimiter.clickTimestamps
          keyCount,   \* RateLimiter.keyCount
          keyStart,   \* RateLimiter.keyWindowStart
          actionLog,  \* the log files
          open,       \* ActionLogger.fileHandle is not nil
          actions,    \* actions so far that called logger.log
          written,    \* history: the actions that are or were in the log
          clicked,    \* history: the clicks that this process posted
          typed       \* history: the keys that it accepted

limits == <<clicks, keyCount, keyStart, clicked, typed>>
logging == <<actionLog, open, actions, written>>
controllerVars == <<level, clock, limits, logging>>

ControllerInit ==
    /\ level \in Levels
    /\ clock = 0
    /\ clicks = {} /\ keyCount = 0 /\ keyStart = 0
    /\ actionLog = [f \in LogFiles |-> IF f = 0 THEN <<>> ELSE NoFile]
    /\ open = TRUE
    /\ actions = 0
    /\ written = {}
    /\ clicked = {} /\ typed = {}

----------------------------------------------------------------------------
(* ActionLogger                                                            *)

\* Mutant: the current file goes first, and each file onto the next.
AfterCurrentFirst(n) ==
    LET place == IF n = LastStep THEN MaxLogFiles ELSE n
    IN  [f \in LogFiles |-> IF f = place THEN actionLog[0]
                            ELSE IF f < place THEN NoFile ELSE actionLog[f]]

\* The files after n steps of rotateLog: the oldest one is removed, and those that are
\* there move along, the current one last.
After(n) ==
    [f \in LogFiles |-> IF f + n <= MaxLogFiles THEN actionLog[f]
                        ELSE IF f + n = LastStep THEN NoFile ELSE actionLog[f - 1]]

Created(fs) == [fs EXCEPT ![0] = <<>>]
Full(f) == f # NoFile /\ Len(f) > LogLimit

\* log's write, to the file that is then open, or to none.
WritesTo(fs, handle) ==
    /\ open' = handle
    /\ actions' = actions + 1
    /\ actionLog' = IF handle THEN [fs EXCEPT ![0] = Append(@, actions + 1)] ELSE fs
    /\ written' = IF handle THEN written \cup {actions + 1} ELSE written

\* Mutant: the file is closed while its size is compared, and opened again by
\* the rotation only.
LogsAfterClosing ==
    /\ actions < MaxEntries
    /\ IF Full(actionLog[0]) THEN WritesTo(Created(After(LastStep)), TRUE)
       ELSE WritesTo(actionLog, FALSE)

\* log: rotateIfNeeded, of which any step can throw after the file has been
\* closed, and createFile can fail; then the entry.  The size that decides may
\* not be readable.
Logs ==
    /\ actions < MaxEntries
    /\ \/ WritesTo(actionLog, open)
       \/ /\ Full(actionLog[0])
          /\ \/ WritesTo(Created(After(LastStep)), TRUE)
             \/ \E n \in 0 .. LastStep : WritesTo(After(n), FALSE)

----------------------------------------------------------------------------
(* RateLimiter                                                             *)

\* A click is its time and a number among those of that time; so is a key.
Recent == {c \in clicks : c.time + Second > clock}

Numbered(numbers) == {[time |-> clock, number |-> k] : k \in numbers}

\* The clicks that are allowed of n that are asked for, one after the other.
NewClicks(n) ==
    Numbered({k \in Cardinality(Recent) + 1 .. Cardinality(Recent) + n : k <= MaxClicks})

\* Mutant: a double click asks the limiter once.
TakeOne(n) == clicks' = Recent \cup NewClicks(1)

\* allowClick, n times or until it refuses; what it allowed is counted although
\* a double click of which one half is refused is not made.
Take(n) == clicks' = Recent \cup NewClicks(n)

\* allowKeys starts a window when the last one is over.
WindowOver == clock > keyStart + Second
KeysBefore == IF WindowOver THEN 0 ELSE keyCount
AllowKeys(n) == KeysBefore + n <= MaxKeys

----------------------------------------------------------------------------
(* The requests.  One that the level refuses, or that the desktop fails    *)
(* before it is logged, is answered with an error and changes nothing.     *)

AtLeast(required) == level \in {required, "accessibility"}

\* click and double_click.
Click(n) ==
    /\ AtLeast("accessibility")
    /\ Take(n)
    /\ IF Cardinality(Recent) + n <= MaxClicks
       THEN Logs /\ clicked' = clicked \cup NewClicks(n)
       ELSE UNCHANGED <<logging, clicked>>
    /\ UNCHANGED <<level, clock, keyCount, keyStart, typed>>

\* type_text.
Type(n) ==
    /\ AtLeast("accessibility")
    /\ keyStart' = IF WindowOver THEN clock ELSE keyStart
    /\ IF AllowKeys(n)
       THEN /\ keyCount' = KeysBefore + n
            /\ typed' = typed \cup Numbered(KeysBefore + 1 .. KeysBefore + n)
            /\ Logs
       ELSE keyCount' = KeysBefore /\ UNCHANGED <<typed, logging>>
    /\ UNCHANGED <<level, clock, clicks, clicked>>

\* What is logged, before it is done or after it, and has no limit.
Unlimited(required) == AtLeast(required) /\ Logs /\ UNCHANGED <<level, clock, limits>>

ScreenRead == Unlimited("accessibility")
WindowRead == Unlimited("accessibility")
Scroll == Unlimited("accessibility")
PressHotkey == Unlimited("accessibility")
SetClipboard == Unlimited("automation")
ManageWindows == Unlimited("accessibility")

ClockTicks == clock < MaxTime /\ clock' = clock + 1 /\ UNCHANGED <<level, limits, logging>>

\* ActionLogger's init: the log is created if it is missing, and opened.
Reopened(fs) == IF fs[0] = NoFile THEN Created(fs) ELSE fs

\* A new process, after the last one ended or died, maybe while it rotated the
\* log: the limits are gone, and the level is read from the file, which the user
\* edits.
Restart ==
    /\ level' \in Levels
    /\ clicks' = {} /\ keyCount' = 0 /\ keyStart' = clock /\ clicked' = {} /\ typed' = {}
    /\ \E n \in 0 .. LastStep :
         (n > 0 => Full(actionLog[0])) /\ actionLog' = Reopened(After(n))
    /\ open' = TRUE
    /\ UNCHANGED <<clock, actions, written>>

ControllerNext ==
    \/ \E n \in {1, 2} : Click(n)
    \/ \E n \in TextLengths : Type(n)
    \/ ScreenRead \/ WindowRead \/ Scroll
    \/ PressHotkey \/ SetClipboard \/ ManageWindows
    \/ ClockTicks \/ Restart

ControllerSpec == ControllerInit /\ [][ControllerNext]_controllerVars

----------------------------------------------------------------------------
(* Properties                                                              *)

Within(stamps, w) == {s \in stamps : s.time <= w /\ s.time + Second > w}

\* "maxClicksPerSecond": in no second, wherever it starts, does one process
\* post more clicks, the halves of double clicks among them.  The keys are
\* counted in windows that do not slide, so that twice their maximum, and no
\* more, can come within a second.
InputIsBounded ==
    \A w \in Times : /\ Cardinality(Within(clicked, w)) <= MaxClicks
                     /\ Cardinality(Within(typed, w)) <= 2 * MaxKeys

Entries(f) == IF actionLog[f] = NoFile THEN {} ELSE ToSet(actionLog[f])

\* "log -> log.1 -> log.2 -> ... -> log.N (oldest is deleted)": whichever steps
\* of whichever rotations fail or are cut short, the files hold, in their order,
\* the last of all the entries that were written, without a gap.
EntriesInOrder ==
    /\ \A f \in LogFiles : actionLog[f] # NoFile =>
         \A i, j \in DOMAIN actionLog[f] : i < j => actionLog[f][i] < actionLog[f][j]
    /\ \A f, g \in LogFiles : f > g => \A d \in Entries(f), e \in Entries(g) : d < e
    /\ \A e \in written : \/ \E f \in LogFiles : e \in Entries(f)
                          \/ \A f \in LogFiles : \A d \in Entries(f) : e < d

\* "All actions are logged": a logger that has lost its file after a rotation
\* that failed gets it back with the next rotation, unless there is no file.
LoggedWhenPossible == open \/ actionLog[0] = NoFile \/ Full(actionLog[0])

\* The files of the action log hold the last entries in order, and the logger has its
\* file when it can.
LogStaysInOrder == EntriesInOrder /\ LoggedWhenPossible
=============================================================================
