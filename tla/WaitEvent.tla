----------------------------- MODULE WaitEvent -----------------------------
(***************************************************************************)
(* Waiting for a key with gnu-efi: WaitForSingleEvent and                  *)
(* WaitForEventWithTimeout of lib/event.c, Input and IInput of             *)
(* lib/console.c.  The user types, the timer expires and a notification    *)
(* function takes a key away between any two calls.  A key is a letter,    *)
(* "bs" or "cr".                                                           *)
(***************************************************************************)
EXTENDS Integers, Sequences, SequencesExt

CONSTANTS
    Letters,     \* keys >= ' '
    StrLens,     \* lengths a caller passes to Input, all at least 1
    Timeouts,    \* the values passed to WaitForEventWithTimeout
    MaxTyped,    \* bound: keys typed
    MaxTaken,    \* bound: keys taken by notification functions
    MaxFailures  \* bound: failures of CreateEvent

ASSUME WaitEventAssumption ==
    /\ StrLens \subseteq Nat \ {0} /\ Timeouts \subseteq Nat
    /\ MaxTyped \in Nat /\ MaxTaken \in Nat /\ MaxFailures \in Nat
    /\ {"bs", "cr", "none", "timeout"} \cap Letters = {}

VARIABLES
    waitPc,           \* "loop", "timer", "wait", "close", "key", "return"
    waitCaller,       \* "WaitForEventWithTimeout" or "IInput"
    Timeout, StrLen,
    timer,            \* the timer event: "none", "idle", "armed", "expired"
    waitStatus, Key,  \* Key: "none" unset, "timeout" is TimeoutKey
    InStr,            \* the characters of IInput so far
    echo,             \* what IInput has left on the screen
    keys, typed, taken, failures

waitVars == <<waitPc, waitCaller, Timeout, StrLen, timer, waitStatus, Key, InStr, echo, keys,
              typed, taken, failures>>

WaitForEventWithTimeout == waitCaller = "WaitForEventWithTimeout" /\ Timeout \in Timeouts /\ StrLen = 1
IInput == waitCaller = "IInput" /\ Timeout = 0 /\ StrLen \in StrLens

WaitOff ==
    /\ waitPc = "off" /\ IInput /\ StrLen = (CHOOSE n \in StrLens : TRUE)
    /\ timer = "none" /\ waitStatus = "none" /\ Key = "none" /\ InStr = <<>> /\ echo = <<>>
    /\ keys = <<>> /\ typed = 0 /\ taken = 0 /\ failures = 0

WaitInit ==
    /\ \/ WaitForEventWithTimeout
       \/ IInput
    /\ waitPc = "loop" /\ timer = "none" /\ waitStatus = "none" /\ Key = "none"
    /\ InStr = <<>> /\ echo = <<>> /\ keys = <<>> /\ typed = 0 /\ taken = 0 /\ failures = 0

-----------------------------------------------------------------------------
TypeKey ==
    /\ waitPc \notin {"off", "return"} /\ typed < MaxTyped /\ typed' = typed + 1
    /\ \E k \in Letters \cup {"bs", "cr"} : keys' = Append(keys, k)
    /\ UNCHANGED <<waitPc, waitCaller, Timeout, StrLen, timer, waitStatus, Key, InStr, echo,
                   taken, failures>>

TakeKey ==
    /\ taken < MaxTaken /\ keys # <<>> /\ keys' = Tail(keys) /\ taken' = taken + 1
    /\ UNCHANGED <<waitPc, waitCaller, Timeout, StrLen, timer, waitStatus, Key, InStr, echo,
                   typed, failures>>

ExpireTimer ==
    /\ timer = "armed" /\ timer' = "expired"
    /\ UNCHANGED <<waitPc, waitCaller, Timeout, StrLen, waitStatus, Key, InStr, echo, keys,
                   typed, taken, failures>>

-----------------------------------------------------------------------------
\* WaitForSingleEvent (Event, 10000000) or WaitForSingleEvent (WaitForKey, 0).
CallWait ==
    /\ waitPc = "loop"
    /\ waitPc' = (IF waitCaller = "IInput" THEN "wait" ELSE "timer")
    /\ UNCHANGED <<waitCaller, Timeout, StrLen, timer, waitStatus, Key, InStr, echo, keys,
                   typed, taken, failures>>

\* CreateEvent may fail, which ends the wait; what SetTimer returns is not looked at.
CreateTimer ==
    /\ waitPc = "timer"
    /\ \/ timer' \in {"armed", "idle"} /\ waitPc' = "wait" /\ UNCHANGED <<waitStatus, failures>>
       \/ /\ failures < MaxFailures /\ failures' = failures + 1
          /\ waitStatus' = "OUT_OF_RESOURCES" /\ waitPc' = "key" /\ UNCHANGED timer
    /\ UNCHANGED <<waitCaller, Timeout, StrLen, Key, InStr, echo, keys, typed, taken>>

\* WaitForEvent looks at the events in the order of WaitList.
AnswersOfTimer == IF timer = "expired" THEN {"TIMEOUT"} ELSE {}
Answers ==
    IF keys # <<>> THEN {"SUCCESS"} ELSE IF timer = "expired" THEN {"TIMEOUT"} ELSE {}

WaitForEvent ==
    /\ waitPc = "wait" /\ waitStatus' \in Answers
    /\ waitPc' = (IF timer = "none" THEN "key" ELSE "close")
    /\ UNCHANGED <<waitCaller, Timeout, StrLen, timer, Key, InStr, echo, keys, typed, taken,
                   failures>>

StillOpen == timer
AfterClose == "none"

CloseTimer ==
    /\ waitPc = "close" /\ timer' = AfterClose /\ waitPc' = "key"
    /\ UNCHANGED <<waitCaller, Timeout, StrLen, waitStatus, Key, InStr, echo, keys, typed,
                   taken, failures>>

\* } while (Timeout > 0); CopyMem(Key, &TimeoutKey, ...)
GivesUp == Timeout = 0

NoKey ==
    IF GivesUp THEN waitPc' = "return" /\ Key' = "timeout" ELSE waitPc' = "loop" /\ UNCHANGED Key

\* ReadKeyStroke fails if somebody else was faster.
ReadKey ==
    /\ waitPc = "key" /\ waitCaller = "WaitForEventWithTimeout"
    /\ \/ waitStatus = "SUCCESS" /\ keys # <<>> /\ Key' = Head(keys) /\ keys' = Tail(keys) /\ waitPc' = "return"
       \/ (waitStatus # "SUCCESS" \/ keys = <<>>) /\ NoKey /\ UNCHANGED keys
    /\ UNCHANGED <<waitCaller, Timeout, StrLen, timer, waitStatus, InStr, echo, typed, taken,
                   failures>>

\* Len < StrLen - 1 leaves room for the terminator.
HasRoomForLast == Len(InStr) < StrLen
HasRoom == Len(InStr) < StrLen - 1

\* if (Len) { OutputString (L"\b \b"); Len -= 1; }
Rubbed(s) == IF s = <<>> THEN s ELSE Front(s)

InputKey ==
    /\ waitPc = "key" /\ waitCaller = "IInput"
    /\ \/ keys = <<>> /\ waitPc' = "return" /\ UNCHANGED <<Key, InStr, echo, keys>>
       \/ /\ keys # <<>> /\ Key' = Head(keys) /\ keys' = Tail(keys)
          /\ \/ Key' = "cr" /\ waitPc' = "return" /\ UNCHANGED <<InStr, echo>>
             \/ /\ Key' = "bs" /\ waitPc' = "loop"
                /\ InStr' = Rubbed(InStr) /\ echo' = Rubbed(echo)
             \/ /\ Key' \in Letters /\ waitPc' = "loop"
                /\ IF HasRoom
                   THEN InStr' = Append(InStr, Key') /\ echo' = Append(echo, Key')
                   ELSE UNCHANGED <<InStr, echo>>
    /\ UNCHANGED <<waitCaller, Timeout, StrLen, timer, waitStatus, typed, taken, failures>>

WaitLibrary == CallWait \/ CreateTimer \/ WaitForEvent \/ CloseTimer \/ ReadKey \/ InputKey

WaitNext == WaitLibrary \/ TypeKey \/ TakeKey \/ ExpireTimer

WaitSpec == WaitInit /\ [][WaitNext]_waitVars

\* The processor keeps running the library and the firmware's timer expires; the user
\* need not type and notification functions need not take a key.
WaitFairSpec == WaitSpec /\ WF_waitVars(WaitLibrary) /\ WF_waitVars(ExpireTimer)

-----------------------------------------------------------------------------
\* event.c 103-115: the timer event lives only while WaitForSingleEvent waits, so no
\* wait is answered by the timer of an earlier one.
TimerClosed == timer # "none" => waitPc \in {"wait", "close"}

\* event.c 143-152: Timeout is not counted down, so the default key is an answer
\* only to a caller that passes 0; another caller gets the key of the user.
DefaultKeyOnlyAtZero == Key = "timeout" => Timeout = 0

\* event.c 103-152: a wait is ended by its own timer only, and a default key is returned
\* to a caller that does not wait only.
TimeoutsAreOwn == TimerClosed /\ DefaultKeyOnlyAtZero

\* console.c 76-97: the string IInput returns, with its terminator, fits StrLen, and
\* is what the user sees behind the prompt.
StringIsEchoed == Len(InStr) < StrLen /\ echo = InStr

\* A key that nobody takes away ends every WaitForEventWithTimeout.
KeyEndsWait ==
    waitCaller = "WaitForEventWithTimeout" /\ keys # <<>> /\ taken = MaxTaken ~> waitPc = "return"
=============================================================================
