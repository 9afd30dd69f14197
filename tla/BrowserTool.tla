----------------------------- MODULE BrowserTool -----------------------------
(***************************************************************************)
(* The browser that all sessions of a process share: tools2/browser.py     *)
(* keeps it and its page in two globals, which every call reads and writes *)
(* between its awaits, without a lock.                                     *)
(*                                                                         *)
(* What a call does in the page is left out: it succeeds or fails.         *)
(***************************************************************************)
EXTENDS Integers, FiniteSets

CONSTANTS
  Tasks,        \* agents that call the tool, one call at a time
  MaxLaunches   \* bound of the model: browsers that are launched

ASSUME BrowserAssumption == MaxLaunches \in Nat

NotSet == 0    \* None; a browser is a number, its page has the same

VARIABLES
  browser,    \* _browser
  shown,      \* _page
  launched,   \* how many browsers have been launched
  alive,      \* those that run
  visit,      \* [Tasks -> the call that the task is in, and the browser it works on]
  returned,   \* [Tasks -> what the last call returned]
  crossing   \* an open or a close has met another one, or a call was cancelled

browserVars == <<browser, shown, launched, alive, visit, returned, crossing>>

Resting == [at |-> "rest", on |-> NotSet]

BrowserInit ==
  /\ browser = NotSet /\ shown = NotSet /\ launched = 0 /\ alive = {}
  /\ visit = [k \in Tasks |-> Resting]
  /\ returned = [k \in Tasks |-> "none"]
  /\ crossing = FALSE

BrowserTypeOK ==
  /\ launched \in 0..MaxLaunches /\ {browser, shown} \subseteq 0..launched /\ alive \subseteq 1..launched
  /\ visit \in [Tasks -> [at : {"rest", "launching", "paging", "going", "titling", "using", "closing"},
                          on : 0..launched]]
  /\ returned \in [Tasks -> {"none", "success", "error", "stopped"}]
  /\ crossing \in BOOLEAN
-----------------------------------------------------------------------------
At(k, stage, b) == visit' = [visit EXCEPT ![k] = [at |-> stage, on |-> b]]

Returns(k, what) == visit' = [visit EXCEPT ![k] = Resting] /\ returned' = [returned EXCEPT ![k] = what]

\* The calls that are between reading the globals and setting them.
Changing == {k \in Tasks : visit[k].at \in {"launching", "paging", "closing"}}

Meets == crossing' = (crossing \/ Changing # {})

\* open, as far as its first await.  With a browser and no page, which is what
\* a failing new_page leaves behind, it fails.
Open(k) ==
  /\ visit[k].at = "rest"
  /\ \/ browser = NotSet /\ At(k, "launching", NotSet) /\ UNCHANGED returned
     \/ browser # NotSet /\ shown = NotSet /\ Returns(k, "error")
     \/ browser # NotSet /\ shown # NotSet /\ At(k, "going", shown) /\ UNCHANGED returned
  /\ Meets
  /\ UNCHANGED <<browser, shown, launched, alive>>

Launched(k) ==
  /\ visit[k].at = "launching" /\ launched < MaxLaunches
  /\ launched' = launched + 1 /\ alive' = alive \cup {launched'}
  /\ browser' = launched'
  /\ At(k, "paging", launched')
  /\ UNCHANGED <<shown, returned, crossing>>

\* The page goes into the global, and from there to goto.
NewPage(k) ==
  /\ visit[k].at = "paging" /\ visit[k].on \in alive
  /\ shown' = visit[k].on
  /\ At(k, "going", shown')
  /\ UNCHANGED <<browser, launched, alive, returned, crossing>>

\* goto has ended; the title is asked of what the global is now.
Gone(k) ==
  /\ visit[k].at = "going" /\ visit[k].on \in alive
  /\ IF shown = NotSet THEN Returns(k, "error") ELSE At(k, "titling", shown) /\ UNCHANGED returned
  /\ UNCHANGED <<browser, shown, launched, alive, crossing>>

\* click, type, press, screenshot, get_text, get_html, wait and scroll, after
\* their arguments have been looked at.
Use(k) ==
  /\ visit[k].at = "rest"
  /\ IF shown = NotSet THEN Returns(k, "error") ELSE At(k, "using", shown) /\ UNCHANGED returned
  /\ UNCHANGED <<browser, shown, launched, alive, crossing>>

Status(k) ==
  /\ visit[k].at = "rest"
  /\ IF browser = NotSet \/ shown = NotSet THEN Returns(k, "stopped")
     ELSE At(k, "titling", shown) /\ UNCHANGED returned
  /\ UNCHANGED <<browser, shown, launched, alive, crossing>>

\* What a page was asked for has come.
PageAnswers(k) ==
  /\ visit[k].at \in {"using", "titling"} /\ visit[k].on \in alive
  /\ Returns(k, "success")
  /\ UNCHANGED <<browser, shown, launched, alive, crossing>>

\* A launch, a new page, a close or what a page was asked for fails, the latter
\* always when the browser is gone; nothing is reset.
CallFails(k) ==
  /\ visit[k].at # "rest"
  /\ Returns(k, "error")
  /\ UNCHANGED <<browser, shown, launched, alive, crossing>>

Close(k) ==
  /\ visit[k].at = "rest"
  /\ IF browser = NotSet THEN Returns(k, "success") ELSE At(k, "closing", browser) /\ UNCHANGED returned
  /\ Meets
  /\ UNCHANGED <<browser, shown, launched, alive>>

\* Both globals are reset, whatever they have become.
Closed(k) ==
  /\ visit[k].at = "closing"
  /\ alive' = alive \ {visit[k].on}
  /\ browser' = NotSet /\ shown' = NotSet
  /\ Returns(k, "success")
  /\ UNCHANGED <<launched, crossing>>

\* The turn of the task is cancelled; what it awaits may go on in the driver.
CancelTask(k) ==
  /\ visit[k].at # "rest"
  /\ \/ visit[k].at = "launching" /\ launched < MaxLaunches
        /\ launched' = launched + 1 /\ alive' = alive \cup {launched'}
     \/ visit[k].at = "closing" /\ alive' = alive \ {visit[k].on} /\ UNCHANGED launched
     \/ UNCHANGED <<launched, alive>>
  /\ visit' = [visit EXCEPT ![k] = Resting]
  /\ crossing' = TRUE
  /\ UNCHANGED <<browser, shown, returned>>

\* The process of a browser ends by itself.
BrowserDies ==
  /\ \E b \in alive : alive' = alive \ {b}
  /\ UNCHANGED <<browser, shown, launched, visit, returned, crossing>>

BrowserNext ==
  \/ \E k \in Tasks :
       \/ Open(k) \/ Launched(k) \/ NewPage(k) \/ Gone(k) \/ Use(k) \/ Status(k)
       \/ PageAnswers(k) \/ CallFails(k) \/ Close(k) \/ Closed(k) \/ CancelTask(k)
  \/ BrowserDies

BrowserSpec == BrowserInit /\ [][BrowserNext]_browserVars
-----------------------------------------------------------------------------
\* As long as no call that opens or closes meets another one that is at it and
\* none is cancelled, every browser that runs is the one in the global, so that
\* a close reaches it, and the page is a page of that browser, however often a
\* launch, a new page or the browser itself fails.
OneBrowser ==
  ~crossing => alive \subseteq {browser} /\ shown \in {NotSet, browser}
=============================================================================
