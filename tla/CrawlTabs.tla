------------------------------ MODULE CrawlTabs ------------------------------
(***************************************************************************)
(* The pages of one crawl: which one the agent loop acts on (activePage in *)
(* agent-loop.ts) and which one its DownloadTracker listens to             *)
(* (download-handler.ts), while popups open, load, fail and close.         *)
(***************************************************************************)
EXTENDS Naturals, Sequences

CONSTANTS Popups,        \* new tabs and popups the site opens
          MaxDownloads   \* bound: files the site sends

ASSUME DownloadAssumption == MaxDownloads \in Nat

VARIABLES
  tPage,      \* the state of each popup
  tActive,    \* activePage
  tTracked,   \* DownloadTracker.page
  tQueue,     \* DownloadTracker.downloads: what each file is
  tText,      \* pendingSpreadsheetText is set
  tFiles,     \* temporary files not removed yet
  tCount,     \* downloads so far
  tMissed     \* history: a file of the active page that nobody saw

tabsVars == <<tPage, tActive, tTracked, tQueue, tText, tFiles, tCount, tMissed>>

Main == "main"
Pages == Popups \cup {Main}

\* A file by what is done with it: recognised as a spreadsheet (by its name, or
\* by its content) and readable; recognised but empty or unreadable; another
\* kind of file; one that cannot be saved or is too large.
Files == {"sheet", "broken", "other", "unsaved"}

TabsTypeOK ==
  /\ tPage \in [Popups -> {"none", "loading", "open", "closed"}]
  /\ tActive \in Pages /\ tTracked \in Pages
  /\ \A i \in DOMAIN tQueue : tQueue[i] \in Files
  /\ tText \in BOOLEAN /\ tMissed \in BOOLEAN
  /\ tFiles \in 0..MaxDownloads /\ tCount \in 0..MaxDownloads

TabsInit ==
  /\ tPage = [p \in Popups |-> "none"]
  /\ tActive = Main /\ tTracked = Main
  /\ tQueue = <<>> /\ tText = FALSE
  /\ tFiles = 0 /\ tCount = 0 /\ tMissed = FALSE

----------------------------------------------------------------------------

PopupOpens(p) ==
  /\ tPage[p] = "none"
  /\ tPage' = [tPage EXCEPT ![p] = "loading"]
  /\ UNCHANGED <<tActive, tTracked, tQueue, tText, tFiles, tCount, tMissed>>

\* The listener is taken from the page it was on and put on the popup.
AttachTo(p) == tTracked' = p

\* waitForLoadState returns: the popup becomes the active page.
PopupLoads(p) ==
  /\ tPage[p] = "loading"
  /\ tPage' = [tPage EXCEPT ![p] = "open"]
  /\ tActive' = p
  /\ AttachTo(p)
  /\ UNCHANGED <<tQueue, tText, tFiles, tCount, tMissed>>

\* It closes, or fails, before it has loaded: waitForLoadState throws.
PopupFails(p) ==
  /\ tPage[p] = "loading"
  /\ tPage' = [tPage EXCEPT ![p] = "closed"]
  /\ UNCHANGED <<tActive, tTracked, tQueue, tText, tFiles, tCount, tMissed>>

\* Mutant: the loop stays on the popup.
PopupClosesStay(p) ==
  /\ tPage[p] = "open"
  /\ tPage' = [tPage EXCEPT ![p] = "closed"]
  /\ UNCHANGED <<tActive, tTracked, tQueue, tText, tFiles, tCount, tMissed>>

\* The close handler: back to the main page, whichever page was active.  The
\* tracker stays where it is.
PopupCloses(p) ==
  /\ tPage[p] = "open"
  /\ tPage' = [tPage EXCEPT ![p] = "closed"]
  /\ tActive' = Main
  /\ UNCHANGED <<tTracked, tQueue, tText, tFiles, tCount, tMissed>>

IsOpen(p) == p = Main \/ (p \in Popups /\ tPage[p] = "open")

\* A page sends a file.
Download(p, file) ==
  /\ IsOpen(p) /\ tCount < MaxDownloads
  /\ tCount' = tCount + 1
  /\ tQueue' = IF p = tTracked THEN Append(tQueue, file) ELSE tQueue
  /\ tMissed' = (tMissed \/ (p = tActive /\ p # tTracked))
  /\ UNCHANGED <<tPage, tActive, tTracked, tText, tFiles>>

\* getDownload after an action: the newest file is saved, the others are
\* dropped.  A spreadsheet is parsed and its file removed, an unreadable one
\* leaves no text, any other file stays in the temporary directory.
CheckForSpreadsheetDownload ==
  /\ tQueue # <<>>
  /\ tQueue' = <<>>
  /\ LET file == tQueue[Len(tQueue)]
     IN /\ tText' = (tText \/ file = "sheet")
        /\ tFiles' = IF file = "other" THEN tFiles + 1 ELSE tFiles
  /\ UNCHANGED <<tPage, tActive, tTracked, tCount, tMissed>>

\* The text goes into the next step's context.
TextIsShown ==
  /\ tText
  /\ tText' = FALSE
  /\ UNCHANGED <<tPage, tActive, tTracked, tQueue, tFiles, tCount, tMissed>>

TabsNext ==
  \/ \E p \in Popups : PopupOpens(p) \/ PopupLoads(p) \/ PopupFails(p) \/ PopupCloses(p)
  \/ \E p \in Pages, file \in Files : Download(p, file)
  \/ CheckForSpreadsheetDownload
  \/ TextIsShown

----------------------------------------------------------------------------

\* The loop never acts on, or captures, a page that is closed, in whatever order
\* several popups load, fail and close.
ActivePageIsOpen == IsOpen(tActive)

\* "Download tracking - captures file downloads": a file sent by the page the
\* loop acts on is seen.
\* TLC refutes this: see "Known disagreements" in the README.
DownloadsAreSeen == ~tMissed

\* The tabs stay usable whatever the site opens and closes.
TabsAreLive == TabsTypeOK /\ ActivePageIsOpen
=============================================================================
