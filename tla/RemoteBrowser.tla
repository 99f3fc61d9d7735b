---------------------------- MODULE RemoteBrowser ----------------------------
(* The rental agent's browser: rental_agent/remote_browser.py behind the      *)
(* rental_browser_* tools, and the part of ui/app.html that shows its frames. *)
(*                                                                            *)
(* The tools are called by the app, where a person looks on and clicks, and   *)
(* by the agent.  The server handles one call at a time: it puts a command on *)
(* a queue and waits, at most 45 s, for the browser's thread.  A command that *)
(* was given up stays on the queue.  One source is modelled; coordinates,     *)
(* keys, the persistent profile and load_page, which keeps nothing, are not,  *)
(* nor are pages that a page opens by itself.  The app makes one call after   *)
(* the other; what it shows between its call and the answer is left out.      *)
EXTENDS Integers, Sequences

CONSTANTS
  Verifying,    \* the contents of a page that ask for a human
  MaxContents,  \* bound: contents that a page goes through
  MaxPages,     \* bound: pages are numbered up to this
  MaxQueue,     \* capacity of the queue
  MaxLaunches   \* bound: how often the browser is launched

ASSUME BrowserAssumption ==
  MaxContents \in Nat /\ MaxPages \in Nat /\ MaxQueue \in Nat /\ MaxLaunches \in Nat

VARIABLES
  browserThread,  \* "none", "launching", "serving", or after a failed launch
                  \* "draining" the queue and then "ending"
  queue,     \* commands not yet taken
  command,   \* the one being carried out, or None
  waiting,   \* is the server waiting for the last command submitted?
  pages,     \* open page -> its contents
  opened,    \* how many pages were opened
  session,   \* the session: [page, seq, hash, flag]; page is 0 if there is none
  view,      \* the app: the session's page, the newest frame it knows of, the one it shows
  missed,    \* history: frames first captured for another than the app
  failed,    \* history: pages whose opening or closing failed
  moved,     \* history: has the page changed since the command looked at it?
  launches

browserVars == <<browserThread, queue, command, waiting, pages, opened, session, view,
                 missed, failed, moved, launches>>

tab == <<pages, opened, session, missed, failed, moved>>
browser == <<tab, view>>

None == [do |-> "none"]

NoSession == [page |-> 0, seq |-> 0, hash |-> -1, flag |-> FALSE]
NoView == [page |-> 0, seq |-> 0, shown |-> 0]

\* A command of the app or the agent: gesture is the flag user_gesture, page the
\* session it names, after the newest frame the caller knows of; awaited until
\* the server gives it up.
Command(do, by, gesture, page, after) ==
  [do |-> do, by |-> by, gesture |-> gesture, page |-> page, after |-> after, awaited |-> TRUE]

-----------------------------------------------------------------------------
(* _submit *)

\* A thread that is ending still counts as alive, so the command waits.  A full
\* queue refuses it.
Submit(c) ==
  /\ ~ waiting
  /\ IF browserThread = "none"
     THEN launches < MaxLaunches /\ browserThread' = "launching" /\ launches' = launches + 1
     ELSE UNCHANGED <<browserThread, launches>>
  /\ \/ Len(queue) < MaxQueue /\ queue' = Append(queue, c) /\ waiting' = TRUE
     \/ Len(queue) = MaxQueue /\ UNCHANGED <<queue, waiting>>
  /\ UNCHANGED <<command, tab>>

\* The app sets the flag on all its input.
App(do, after) == Submit(Command(do, "app", TRUE, view.page, after))

AppOpens == Submit(Command("open", "app", FALSE, 0, 0)) /\ UNCHANGED view
AppLooks == view.page # 0 /\ App("frame", view.seq) /\ UNCHANGED view
AppActs == view.page # 0 /\ App("input", 0) /\ UNCHANGED view

\* The app forgets the session, whatever becomes of the call.
AppCloses == view.page # 0 /\ App("close", 0) /\ view' = NoView

Agent(do, gesture) ==
  session.page # 0 /\ Submit(Command(do, "agent", gesture, session.page, 0)) /\ UNCHANGED view

AgentOpens == Submit(Command("open", "agent", FALSE, 0, 0)) /\ UNCHANGED view
AgentLooks == Agent("frame", FALSE)
AgentCloses == Agent("close", FALSE)

\* rental_browser_input takes the flag from whoever calls it.  The agent's tool
\* rental_browser_click is AgentOpens and then an input with the flag; here
\* other calls may come between the two.
AgentActs == \E gesture \in BOOLEAN : Agent("input", gesture)

\* future.result runs out.  Nothing cancels the command.
GiveUp ==
  /\ waiting
  /\ waiting' = FALSE
  /\ queue' = [i \in 1 .. Len(queue) |-> [queue[i] EXCEPT !.awaited = FALSE]]
  /\ command' = IF command = None THEN None ELSE [command EXCEPT !.awaited = FALSE]
  /\ UNCHANGED <<browserThread, browser, launches>>

-----------------------------------------------------------------------------
(* _thread_main *)

Launch ==
  /\ browserThread = "launching"
  /\ browserThread' \in {"serving", "draining"}
  /\ UNCHANGED <<queue, command, waiting, browser, launches>>

\* After a failed launch every queued command gets the exception.
Drain ==
  /\ browserThread = "draining" /\ queue # <<>>
  /\ waiting' = (waiting /\ ~ Head(queue).awaited)
  /\ queue' = Tail(queue)
  /\ UNCHANGED <<browserThread, command, browser, launches>>

DrainEnds ==
  /\ \/ browserThread = "draining" /\ queue = <<>> /\ browserThread' = "ending"
     \/ browserThread = "ending" /\ browserThread' = "none"
  /\ UNCHANGED <<queue, command, waiting, browser, launches>>

Take ==
  /\ browserThread = "serving" /\ command = None /\ queue # <<>>
  /\ command' = Head(queue)
  /\ queue' = Tail(queue)
  /\ UNCHANGED <<browserThread, waiting, browser, launches>>

\* The command in hand is over.
Over ==
  /\ command' = None
  /\ waiting' = (waiting /\ ~ command.awaited)
  /\ UNCHANGED <<browserThread, queue, launches>>

-----------------------------------------------------------------------------
(* _capture and _dispatch *)

Changed(s) == pages[s.page] # s.hash

\* Fault: the flag is still that of the last frame.
CapturedLate(s) ==
  [s EXCEPT !.seq = IF Changed(s) THEN @ + 1 ELSE @,
            !.hash = pages[s.page], !.flag = s.hash \in Verifying]

\* Fault: every capture is a new frame.
CapturedAnew(s) ==
  [s EXCEPT !.seq = @ + 1, !.hash = pages[s.page], !.flag = pages[s.page] \in Verifying]

\* A frame is numbered when what it shows is new.
Captured(s) ==
  [s EXCEPT !.seq = IF Changed(s) THEN @ + 1 ELSE @,
            !.hash = pages[s.page], !.flag = pages[s.page] \in Verifying]

\* The frame has been found new by this capture, for another than the app.
MissedIf(new, s) == missed' = IF new THEN missed \cup {<<s.page, s.seq>>} ELSE missed

\* The app takes over the number of every frame it is told of, and the picture
\* if there is one.
Answered(s, new, picture) ==
  IF command.by = "app" /\ command.awaited
  THEN /\ view' = [page  |-> s.page,
                   seq   |-> s.seq,
                   shown |-> IF picture THEN s.seq
                             ELSE IF view.page = s.page THEN view.shown ELSE 0]
       /\ UNCHANGED missed
  ELSE MissedIf(new, s) /\ UNCHANGED view

Open ==
  /\ command.do = "open"
  /\ \/ /\ session.page # 0
        /\ session' = Captured(session)
        /\ Answered(session', Changed(session), TRUE)
        /\ UNCHANGED <<pages, opened>>
     \/ /\ session.page = 0 /\ opened < MaxPages
        /\ opened' = opened + 1
        /\ \E c \in 0 .. MaxContents :
             /\ pages' = [p \in DOMAIN pages \cup {opened'} |-> IF p = opened' THEN c ELSE pages[p]]
             /\ session' = [page |-> opened', seq |-> 1, hash |-> c, flag |-> c \in Verifying]
        /\ Answered(session', TRUE, TRUE)
  /\ Over
  /\ UNCHANGED <<failed, moved>>

\* The page does not load: it is open, and nothing knows of it.
OpenFails ==
  /\ command.do = "open" /\ session.page = 0 /\ opened < MaxPages
  /\ opened' = opened + 1
  /\ pages' = [p \in DOMAIN pages \cup {opened'} |-> IF p = opened' THEN 0 ELSE pages[p]]
  /\ failed' = failed \cup {opened'}
  /\ Over
  /\ UNCHANGED <<session, view, missed, moved>>

\* The session that the command names has been closed meanwhile.
SessionNotFound ==
  /\ command.do \in {"frame", "input", "close"} /\ command.page # session.page
  /\ Over
  /\ UNCHANGED browser

\* The picture is sent only if this capture is the one that found it new.
Frame ==
  LET s == Captured(session)
  IN /\ command.do = "frame" /\ command.page = session.page
     /\ session' = s
     /\ Answered(s, Changed(session), Changed(session) /\ s.seq > command.after)
     /\ Over
     /\ UNCHANGED <<pages, opened, failed, moved>>

\* input looks at the page first.  A verification takes only input with the flag.
Look ==
  LET s == Captured(session)
      refused == s.flag /\ ~ command.gesture
  IN /\ command.do = "input" /\ command.page = session.page
     /\ session' = s
     /\ moved' = FALSE
     /\ MissedIf(Changed(session), s)
     /\ IF refused THEN Over
        ELSE /\ command' = [command EXCEPT !.do = "act"]
             /\ UNCHANGED <<browserThread, queue, waiting, launches>>
     /\ UNCHANGED <<pages, opened, view, failed>>

\* The click, key or text reaches the page, whatever it shows by now; the
\* answer brings the frame after it.
Act ==
  LET s == Captured(session)
  IN /\ command.do = "act"
     /\ session' = s
     /\ Answered(s, Changed(session), TRUE)
     /\ Over
     /\ UNCHANGED <<pages, opened, failed, moved>>

\* The session is gone even if the page cannot be closed.
Close ==
  /\ command.do = "close" /\ command.page = session.page
  /\ session' = NoSession
  /\ \/ /\ pages' = [p \in DOMAIN pages \ {session.page} |-> pages[p]]
        /\ UNCHANGED failed
     \/ failed' = failed \cup {session.page} /\ UNCHANGED pages
  /\ Over
  /\ UNCHANGED <<opened, view, missed, moved>>

-----------------------------------------------------------------------------
\* The page changes by itself, also between a look and the act.
PageChanges(p) ==
  /\ p \in DOMAIN pages /\ pages[p] < MaxContents
  /\ pages' = [pages EXCEPT ![p] = @ + 1]
  /\ moved' = (moved \/ p = session.page)
  /\ UNCHANGED <<browserThread, queue, command, waiting, opened, session, view, missed,
                 failed, launches>>

BrowserInit ==
  /\ browserThread = "none"
  /\ queue = <<>>
  /\ command = None
  /\ waiting = FALSE
  /\ pages = [p \in {} |-> 0]
  /\ opened = 0
  /\ session = NoSession
  /\ view = NoView
  /\ missed = {}
  /\ failed = {}
  /\ moved = FALSE
  /\ launches = 0

Call ==
  \/ AppOpens \/ AppLooks \/ AppActs \/ AppCloses
  \/ AgentOpens \/ AgentLooks \/ AgentActs \/ AgentCloses
  \/ GiveUp

BrowserThread == Launch \/ Drain \/ DrainEnds \/ Take

Dispatch == Open \/ OpenFails \/ SessionNotFound \/ Frame \/ Look \/ Act \/ Close

BrowserNext ==
  \/ Call
  \/ BrowserThread
  \/ Dispatch
  \/ \E p \in 1 .. MaxPages : PageChanges(p)

BrowserSpec == BrowserInit /\ [][BrowserNext]_browserVars

-----------------------------------------------------------------------------
(* Properties *)

\* Types.
BrowserTypeOK ==
  /\ browserThread \in {"none", "launching", "serving", "draining", "ending"}
  /\ Len(queue) <= MaxQueue
  /\ waiting \in BOOLEAN /\ moved \in BOOLEAN
  /\ DOMAIN pages \subseteq 1 .. opened /\ opened \in 0 .. MaxPages
  /\ \A p \in DOMAIN pages : pages[p] \in 0 .. MaxContents
  /\ session.page \in DOMAIN pages \cup {0}
  /\ view.page \in 0 .. opened /\ view.seq \in Nat /\ view.shown \in Nat
  /\ failed \subseteq 1 .. opened
  /\ launches \in 0 .. MaxLaunches

\* An input without the flag user_gesture, whoever sent it, acts on a
\* verification page only if the page turned into one after the thread had
\* looked: also when the server gave the input up and it runs late, and other
\* commands and pages came before it.  Who raised the flag is not asked.
GestureForVerification ==
  command.do = "act" /\ ~ command.gesture /\ pages[session.page] \in Verifying => moved

\* Expected to be violated.  What rental_browser_input is described by: during
\* a verification "user_gesture must be true and must originate from the
\* user-facing app gesture" (server.py), so input of the agent acts on no page
\* that the thread saw to be a verification.  The agent's rental_browser_click
\* raises the flag itself.
OnlyThePersonVerifies ==
  command.do = "act" /\ command.by = "agent" /\ pages[session.page] \in Verifying => moved

\* The app shows the newest frame it has heard of, unless another capture had
\* that frame first: then the picture is not sent again.  And no page of the
\* persistent browser is left open without a session that could close it,
\* unless its opening or closing failed.
ShownOrMissed ==
  /\ view.page # 0 /\ view.shown < view.seq => <<view.page, view.seq>> \in missed
  /\ \A p \in DOMAIN pages : p = session.page \/ p \in failed
=============================================================================
