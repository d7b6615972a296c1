----------------------------- MODULE BrowserPool -----------------------------
(***************************************************************************)
(* browser-pool.ts: the one Chromium of an engine process.  getBrowser     *)
(* shares a running browser or a launch in flight, createContext opens a   *)
(* context in three awaited steps, and closeBrowser fences everything that *)
(* is under way by moving the lifecycle generation on.                     *)
(*                                                                         *)
(* Steps of the event loop between two awaits are atomic.  Chromium        *)
(* processes are numbered in the order they are launched.                  *)
(***************************************************************************)
EXTENDS Naturals

CONSTANTS Crawls,       \* createContext calls
          Closers,      \* closeBrowser calls
          MaxLaunches   \* bound: browsers launched

ASSUME LaunchAssumption == MaxLaunches \in Nat

VARIABLES
  bGen,       \* browserLifecycleGeneration
  bBrowser,   \* browser: the published one, 0 if none
  bLaunch,    \* browserLaunch: the launch in flight, 0 if none
  bChrome,    \* each launch: its process, and the generation it started in
  bCrawl,     \* createContext: where it is, its generation, its browser
  bContext,   \* the context of a crawl: none, open or closed
  bCloser     \* closeBrowser: where it is, what it closes, what it waits for

poolVars == <<bGen, bBrowser, bLaunch, bChrome, bCrawl, bContext, bCloser>>

Launches == 1..MaxLaunches
ChromeStates == {"unused", "launching", "open", "closed", "unclosable"}

PoolTypeOK ==
  /\ bGen \in Nat
  /\ bBrowser \in 0..MaxLaunches /\ bLaunch \in 0..MaxLaunches
  /\ bChrome \in [Launches -> [state : ChromeStates, gen : Nat, failed : BOOLEAN]]
  /\ bCrawl \in [Crawls -> [pc : {"idle", "browser", "context", "script", "ready", "failed"},
                            gen : Nat, browser : 0..MaxLaunches]]
  /\ bContext \in [Crawls -> {"none", "open", "closed"}]
  /\ bCloser \in [Closers -> [pc : {"idle", "closing", "done"},
                              current : 0..MaxLaunches, pending : 0..MaxLaunches]]

PoolInit ==
  /\ bGen = 0 /\ bBrowser = 0 /\ bLaunch = 0
  /\ bChrome = [l \in Launches |-> [state |-> "unused", gen |-> 0, failed |-> FALSE]]
  /\ bCrawl = [c \in Crawls |-> [pc |-> "idle", gen |-> 0, browser |-> 0]]
  /\ bContext = [c \in Crawls |-> "none"]
  /\ bCloser = [k \in Closers |-> [pc |-> "idle", current |-> 0, pending |-> 0]]

----------------------------------------------------------------------------

Connected(l) == l # 0 /\ bChrome[l].state = "open"

\* getBrowser, called by createContext: the running browser, the launch in
\* flight (also one that a fence has already doomed), or a new launch.
GetBrowser(c) ==
  /\ bCrawl[c].pc = "idle"
  /\ \/ /\ Connected(bBrowser)
        /\ bCrawl' = [bCrawl EXCEPT ![c] = [pc |-> "browser", gen |-> bGen, browser |-> bBrowser]]
        /\ UNCHANGED <<bChrome, bLaunch>>
     \/ /\ ~Connected(bBrowser) /\ bLaunch # 0
        /\ bCrawl' = [bCrawl EXCEPT ![c] = [pc |-> "browser", gen |-> bGen, browser |-> bLaunch]]
        /\ UNCHANGED <<bChrome, bLaunch>>
     \/ /\ ~Connected(bBrowser) /\ bLaunch = 0
        /\ \E l \in Launches :
             /\ bChrome[l].state = "unused"
             /\ \A k \in Launches : k < l => bChrome[k].state # "unused"
             /\ bChrome' = [bChrome EXCEPT ![l] = [state |-> "launching", gen |-> bGen,
                                                   failed |-> FALSE]]
             /\ bLaunch' = l
             /\ bCrawl' = [bCrawl EXCEPT ![c] = [pc |-> "browser", gen |-> bGen, browser |-> l]]
  /\ UNCHANGED <<bGen, bBrowser, bContext, bCloser>>

\* Mutant: the launch does not notice that it was fenced.
LaunchEndsUnfenced(l) ==
  /\ bChrome[l].state = "launching"
  /\ bChrome' = [bChrome EXCEPT ![l].state = "open"]
  /\ bBrowser' = l
  /\ bLaunch' = IF bLaunch = l THEN 0 ELSE bLaunch
  /\ UNCHANGED <<bGen, bCrawl, bContext, bCloser>>

\* chromium.launch resolves: published, unless a fence came in between; then it
\* is closed before anybody sees it.  Or it rejects.
LaunchEnds(l) ==
  /\ bChrome[l].state = "launching"
  /\ \/ /\ bChrome[l].gen = bGen
        /\ bChrome' = [bChrome EXCEPT ![l].state = "open"]
        /\ bBrowser' = l
     \/ /\ bChrome[l].gen # bGen
        /\ \E end \in {"closed", "unclosable"} :
             bChrome' = [bChrome EXCEPT ![l].state = end, ![l].failed = TRUE]
        /\ UNCHANGED bBrowser
     \/ /\ bChrome' = [bChrome EXCEPT ![l].state = "closed", ![l].failed = TRUE]
        /\ UNCHANGED bBrowser
  /\ bLaunch' = IF bLaunch = l THEN 0 ELSE bLaunch
  /\ UNCHANGED <<bGen, bCrawl, bContext, bCloser>>

\* createContext goes on with the browser: fenced, failed, or newContext.
OpenContext(c) ==
  LET l == bCrawl[c].browser
  IN /\ bCrawl[c].pc = "browser" /\ bChrome[l].state # "launching"
     /\ \/ /\ ~bChrome[l].failed /\ bCrawl[c].gen = bGen /\ Connected(l)
           /\ bCrawl' = [bCrawl EXCEPT ![c].pc = "context"]
           /\ bContext' = [bContext EXCEPT ![c] = "open"]
        \/ /\ bCrawl' = [bCrawl EXCEPT ![c].pc = "failed"]
           /\ UNCHANGED bContext
     /\ UNCHANGED <<bGen, bBrowser, bLaunch, bChrome, bCloser>>

\* Closing a context that died with its browser changes nothing; one that
\* cannot be closed makes createContext throw a BrowserFenceError.
CheckFence(c, next) ==
  IF bCrawl[c].gen # bGen
  THEN /\ bContext' = [bContext EXCEPT ![c] = "closed"]
       /\ bCrawl' = [bCrawl EXCEPT ![c].pc = "failed"]
  ELSE /\ bCrawl' = [bCrawl EXCEPT ![c].pc = next]
       /\ UNCHANGED bContext

\* newContext returned: the generation is looked at, then addInitScript.
ContextOpened(c) ==
  /\ bCrawl[c].pc = "context"
  /\ CheckFence(c, "script")
  /\ UNCHANGED <<bGen, bBrowser, bLaunch, bChrome, bCloser>>

\* addInitScript returned: looked at once more before the context is handed out.
ScriptAdded(c) ==
  /\ bCrawl[c].pc = "script"
  /\ CheckFence(c, "ready")
  /\ UNCHANGED <<bGen, bBrowser, bLaunch, bChrome, bCloser>>

----------------------------------------------------------------------------

\* closeBrowser: the generation moves on before anything is awaited.
CloseBrowser(k) ==
  /\ bCloser[k].pc = "idle"
  /\ bGen' = bGen + 1
  /\ bBrowser' = 0
  /\ bCloser' = [bCloser EXCEPT ![k] = [pc |-> "closing", current |-> bBrowser,
                                        pending |-> bLaunch]]
  /\ UNCHANGED <<bLaunch, bChrome, bCrawl, bContext>>

\* The browser closes with its contexts, and the pending launch has ended.
CloseEnds(k) ==
  LET now == bCloser[k].current
  IN /\ bCloser[k].pc = "closing"
     /\ bCloser[k].pending # 0 => bChrome[bCloser[k].pending].state # "launching"
     /\ bChrome' = IF now = 0 THEN bChrome ELSE [bChrome EXCEPT ![now].state = "closed"]
     /\ bContext' = [c \in Crawls |-> IF now # 0 /\ bCrawl[c].browser = now
                                         /\ bContext[c] = "open"
                                      THEN "closed" ELSE bContext[c]]
     /\ bCloser' = [bCloser EXCEPT ![k].pc = "done"]
     /\ UNCHANGED <<bGen, bBrowser, bLaunch, bCrawl>>

\* Chromium dies, and its contexts with it.
BrowserCrashes(l) ==
  /\ bChrome[l].state = "open"
  /\ bChrome' = [bChrome EXCEPT ![l].state = "closed"]
  /\ bContext' = [c \in Crawls |-> IF bCrawl[c].browser = l /\ bContext[c] = "open"
                                   THEN "closed" ELSE bContext[c]]
  /\ UNCHANGED <<bGen, bBrowser, bLaunch, bCrawl, bCloser>>

PoolNext ==
  \/ \E c \in Crawls : GetBrowser(c) \/ OpenContext(c) \/ ContextOpened(c) \/ ScriptAdded(c)
  \/ \E k \in Closers : CloseBrowser(k) \/ CloseEnds(k)
  \/ \E l \in Launches : LaunchEnds(l) \/ BrowserCrashes(l)

----------------------------------------------------------------------------

\* When closeBrowser has returned, nothing of what was under way when it was
\* called is alive: no browser launched before, and no context handed out by a
\* createContext that began before ("so no caller can begin navigation after its
\* durable lease was lost").  A browser that cannot be closed is reported
\* instead (BrowserFenceError).
CloseFencesEverything ==
  (\E k \in Closers : bCloser[k].pc = "done") /\ (\A k \in Closers : bCloser[k].pc # "closing")
  => /\ \A l \in Launches : bChrome[l].state \in {"open", "launching"} => bChrome[l].gen = bGen
     /\ \A c \in Crawls : bCrawl[c].pc = "ready" /\ bContext[c] = "open" => bCrawl[c].gen = bGen

\* There is one Chromium: a running browser that is not the published one is
\* being closed by somebody, so that none is leaked.
OneBrowser ==
  \A l \in Launches : bChrome[l].state = "open" =>
    l = bBrowser \/ \E k \in Closers : bCloser[k].pc = "closing" /\ bCloser[k].current = l

\* A close leaves nothing behind, and nothing but the published browser runs.
PoolIsFenced == PoolTypeOK /\ CloseFencesEverything /\ OneBrowser
=============================================================================
