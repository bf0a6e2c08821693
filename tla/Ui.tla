--------------------------------- MODULE Ui ---------------------------------
(***************************************************************************)
(* The terminal interface (src/src/ui.rs): the way of an event from the    *)
(* node to the screen, over the channel of events, cursive's channel of    *)
(* callbacks and, while there is no message log, UiState::pending; and the *)
(* log, which follows new lines until its reader pages back.               *)
(*                                                                         *)
(* Cursive runs keys, callbacks and layouts on one thread, one at a time;  *)
(* Launcher::start blocks that thread.  The node and the task that         *)
(* forwards its events run beside it.                                      *)
(***************************************************************************)
EXTENDS Naturals, Sequences

CONSTANTS
    Sizes,      \* how many lines an event may take: 1, 2, or 4 for a clash
    Notices,    \* how many notices main sends before there is an interface
    MaxEvents,  \* how many events there may be in all (a bound)
    MaxKeys,    \* how many keys may be pressed in the chat (a bound)
    MaxTries,   \* how often Connect may be pressed (a bound)
    Page,       \* PAGE
    Height      \* the lines the log has on the screen

ASSUME BoundsAssumption ==
    /\ Sizes \subseteq Nat
    /\ Notices \in Nat /\ MaxEvents \in Nat /\ Notices =< MaxEvents
    /\ MaxKeys \in Nat /\ MaxTries \in Nat
    /\ Page \in Nat /\ Height \in Nat

VARIABLES
    screen,    \* what is up, or what the interface thread is busy with
    named,     \* a name was given: no setup screen
    emitted,   \* how many events there were
    events,    \* the channel from the node
    sink,      \* the callbacks cursive has still to run
    pending,   \* UiState::pending
    replay,    \* what build has taken from it and not applied yet
    applied,   \* the events that were written to the log
    rows,      \* how many lines the log has
    laid,      \* how many it had when it was last laid out
    top,       \* the scroll offset
    strategy,  \* ScrollStrategy: "stick" to the bottom or "keep" the row
    live,      \* the reader has not paged back since Enter or Ctrl+E
    esc,       \* Esc was pressed and not acted upon
    keys,      \* how many keys were pressed in the chat
    tries      \* how often Connect was pressed

vars == <<screen, named, emitted, events, sink, pending, replay, applied,
          rows, laid, top, strategy, live, esc, keys, tries>>

feed == <<emitted, events, sink, pending, replay, applied>>
view == <<rows, laid, top, strategy, live>>

(* The thread is in the event loop.                                        *)
Free == screen \in {"setup", "chat"}

Events == [id : 1 .. MaxEvents, size : Sizes]

Init ==
    /\ named \in BOOLEAN
    /\ screen = "main"
    /\ emitted = 0
    /\ events = <<>> /\ sink = <<>> /\ pending = <<>> /\ replay = <<>> /\ applied = <<>>
    /\ rows = 0 /\ laid = 0 /\ top = 0
    /\ strategy = "stick" /\ live = TRUE
    /\ esc = FALSE
    /\ keys = 0
    /\ tries = 0

-----------------------------------------------------------------------------
(* From the node to the interface thread.                                  *)

NewEvent ==
    /\ emitted < MaxEvents
    /\ emitted' = emitted + 1
    /\ \E size \in Sizes : events' = Append(events, [id |-> emitted + 1, size |-> size])
    /\ UNCHANGED <<sink, pending, replay, applied>>

(* The node, or start once the node is bound, has something to tell; or    *)
(* main had, before all this.                                              *)
Emit ==
    /\ \/ screen \in {"dial", "build", "chat"}
       \/ screen = "main" /\ emitted < Notices
    /\ NewEvent
    /\ UNCHANGED <<screen, named, view, esc, keys, tries>>

(* The task run has spawned.                                               *)
Forward ==
    /\ screen \notin {"main", "closed"}
    /\ events # <<>>
    /\ sink' = Append(sink, Head(events))
    /\ events' = Tail(events)
    /\ UNCHANGED <<screen, named, emitted, pending, replay, applied, view, esc, keys, tries>>

-----------------------------------------------------------------------------
(* apply.                                                                  *)

(* There is no log yet.                                                    *)
Hold ==
    /\ screen = "setup"
    /\ sink # <<>>
    /\ pending' = Append(pending, Head(sink))
    /\ sink' = Tail(sink)
    /\ UNCHANGED <<screen, named, emitted, events, replay, applied, view, esc, keys, tries>>

Write(event) ==
    /\ applied' = Append(applied, event)
    /\ rows' = rows + event.size

Apply ==
    /\ screen = "chat"
    /\ sink # <<>>
    /\ Write(Head(sink))
    /\ sink' = Tail(sink)
    /\ UNCHANGED <<screen, named, emitted, events, pending, replay, laid, top, strategy, live,
                   esc, keys, tries>>

-----------------------------------------------------------------------------
(* run, the setup screen, Launcher::start and build.                       *)

Run ==
    /\ screen = "main"
    /\ emitted = Notices
    /\ screen' = IF named THEN "start" ELSE "setup"
    /\ UNCHANGED <<named, feed, view, esc, keys, tries>>

PressConnect ==
    /\ screen = "setup"
    /\ ~esc
    /\ tries < MaxTries
    /\ tries' = tries + 1
    /\ screen' = "start"
    /\ UNCHANGED <<named, feed, view, esc, keys>>

(* A field is wrong or the address is taken.  The setup screen reports it  *)
(* and stays; a start from the command line is over.                       *)
StartFails ==
    /\ screen = "start"
    /\ screen' = IF named THEN "closed" ELSE "setup"
    /\ UNCHANGED <<named, feed, view, esc, keys, tries>>

(* Node::start returns; what is left is to dial the peer that was named.   *)
Bind ==
    /\ screen = "start"
    /\ screen' = "dial"
    /\ UNCHANGED <<named, feed, view, esc, keys, tries>>

(* Mistake: build hands the held events back to cursive.                   *)
BuildRequeueing ==
    /\ screen = "dial"
    /\ screen' = "build"
    /\ rows' = 2
    /\ sink' = sink \o pending
    /\ pending' = <<>>
    /\ UNCHANGED <<named, emitted, events, replay, applied, laid, top, strategy, live,
                   esc, keys, tries>>

(* Mistake: build looks at the held events and leaves them there.          *)
BuildForgetting ==
    /\ screen = "dial"
    /\ screen' = "build"
    /\ rows' = 2
    /\ UNCHANGED <<named, feed, laid, top, strategy, live, esc, keys, tries>>

(* The dial is over, and build has a log, says who we are and takes what   *)
(* was held ...                                                            *)
Build ==
    /\ screen = "dial"
    /\ screen' = "build"
    /\ rows' = 2
    /\ replay' = pending
    /\ pending' = <<>>
    /\ UNCHANGED <<named, emitted, events, sink, applied, laid, top, strategy, live,
                   esc, keys, tries>>

(* ... to apply it before the event loop goes on.                          *)
Replay ==
    /\ screen = "build"
    /\ replay # <<>>
    /\ Write(Head(replay))
    /\ replay' = Tail(replay)
    /\ UNCHANGED <<screen, named, emitted, events, sink, pending, laid, top, strategy, live,
                   esc, keys, tries>>

Open ==
    /\ screen = "build"
    /\ replay = <<>>
    /\ screen' = "chat"
    /\ UNCHANGED <<named, feed, view, esc, keys, tries>>

-----------------------------------------------------------------------------
(* The scroll view.  It goes by the last layout, and set_scroll_strategy   *)
(* applies the strategy at once (cursive).                                 *)
LessPlain(a, b) == a - b   \* mistake: usize, and not saturating_sub
Less(a, b)   == IF b < a THEN a - b ELSE 0
AtMost(a, b) == IF a < b THEN a ELSE b
Bottom(n)    == Less(n, Height)

(* follow.                                                                 *)
Follow ==
    /\ strategy' = "stick"
    /\ top' = Bottom(laid)
    /\ live' = TRUE

(* scroll, to a target.  The reader is back at the newest line when there  *)
(* is nothing below the screen.                                            *)
ScrollTo(target, otherwise) ==
    /\ top' = AtMost(target, Bottom(laid))
    /\ strategy' = IF target >= Bottom(laid) THEN "stick" ELSE otherwise
    /\ live' = (live /\ target >= Bottom(laid))

Key ==
    /\ screen = "chat"
    /\ ~esc
    /\ keys < MaxKeys
    /\ keys' = keys + 1
    /\ UNCHANGED <<named, esc, tries>>

(* Mistake: the log goes on following until it has new lines.              *)
PageUpFollowing ==
    /\ Key
    /\ ScrollTo(Less(top, Page), strategy)
    /\ UNCHANGED <<screen, feed, rows, laid>>

PageUp ==
    /\ Key
    /\ ScrollTo(Less(top, Page), "keep")
    /\ UNCHANGED <<screen, feed, rows, laid>>

PageDown ==
    /\ Key
    /\ ScrollTo(top + Page, strategy)
    /\ UNCHANGED <<screen, feed, rows, laid>>

CtrlE ==
    /\ Key
    /\ Follow
    /\ UNCHANGED <<screen, feed, rows, laid>>

-----------------------------------------------------------------------------
(* Mistake: a bare Enter is ignored.                                       *)
EnterNothingLate ==
    /\ Key
    /\ live' = TRUE
    /\ UNCHANGED <<screen, feed, rows, laid, top, strategy>>

(* submit: the log follows again, whatever was entered: nothing, ...       *)
EnterNothing ==
    /\ Key
    /\ Follow
    /\ UNCHANGED <<screen, feed, rows, laid>>

(* ... a message, which say shows as an event or refuses with one, ...     *)
EnterMessage ==
    /\ Key
    /\ Follow
    /\ NewEvent
    /\ UNCHANGED <<screen, rows, laid>>

(* ... /clear, ...                                                         *)
EnterClear ==
    /\ Key
    /\ Follow
    /\ rows' = 0
    /\ UNCHANGED <<screen, feed, laid>>

(* ... a command that answers in the log, ...                              *)
EnterCommand ==
    /\ Key
    /\ Follow
    /\ \E answer \in Sizes : rows' = rows + answer
    /\ UNCHANGED <<screen, feed, laid>>

(* ... or /quit.                                                           *)
EnterQuit ==
    /\ Key
    /\ Follow
    /\ screen' = "closed"
    /\ UNCHANGED <<feed, rows, laid>>

(* After keys and callbacks cursive lays the screen out again.             *)
Layout ==
    /\ screen = "chat"
    /\ laid # rows
    /\ laid' = rows
    /\ top' = IF strategy = "stick" THEN Bottom(rows) ELSE AtMost(top, Bottom(rows))
    /\ UNCHANGED <<screen, named, feed, rows, strategy, live, esc, keys, tries>>

-----------------------------------------------------------------------------
(* bind_keys.                                                              *)
PressEsc ==
    /\ screen \in {"setup", "chat"} \/ (~named /\ screen \in {"start", "dial", "build"})
    /\ ~esc
    /\ esc' = TRUE
    /\ UNCHANGED <<screen, named, feed, view, keys, tries>>

(* Mistake: the key is bound by build.                                     *)
EscapeFromChat ==
    /\ screen = "chat"
    /\ esc
    /\ screen' = "closed"
    /\ esc' = FALSE
    /\ UNCHANGED <<named, feed, view, keys, tries>>

(* Keys that were pressed while the thread was busy are read afterwards.   *)
Escape ==
    /\ Free
    /\ esc
    /\ screen' = "closed"
    /\ esc' = FALSE
    /\ UNCHANGED <<named, feed, view, keys, tries>>

-----------------------------------------------------------------------------
Next ==
    \/ Run \/ Emit \/ Forward \/ Hold \/ Apply
    \/ PressConnect \/ StartFails \/ Bind \/ Build \/ Replay \/ Open
    \/ PageUp \/ PageDown \/ CtrlE
    \/ EnterNothing \/ EnterMessage \/ EnterClear \/ EnterCommand \/ EnterQuit
    \/ Layout \/ PressEsc \/ Escape

Spec == Init /\ [][Next]_vars

(* The event loop goes on and reads keys; the forwarder is polled; and     *)
(* Launcher::start returns, one way or the other, which is up to the       *)
(* system's connect.                                                       *)
Fairness ==
    /\ WF_vars(Run) /\ WF_vars(StartFails \/ Bind) /\ WF_vars(Build) /\ WF_vars(Replay) /\ WF_vars(Open)
    /\ WF_vars(Escape)
    /\ WF_vars(Forward) /\ WF_vars(Hold \/ Apply)

FairSpec == Spec /\ Fairness

-----------------------------------------------------------------------------
(* Properties.                                                             *)

TypeOK ==
    /\ screen \in {"main", "setup", "start", "dial", "build", "chat", "closed"}
    /\ named \in BOOLEAN
    /\ emitted \in 0 .. MaxEvents
    /\ events \in Seq(Events) /\ sink \in Seq(Events)
    /\ pending \in Seq(Events) /\ replay \in Seq(Events) /\ applied \in Seq(Events)
    /\ rows \in Nat /\ laid \in Nat /\ top \in Nat
    /\ strategy \in {"stick", "keep"}
    /\ live \in BOOLEAN /\ esc \in BOOLEAN
    /\ keys \in 0 .. MaxKeys
    /\ tries \in 0 .. MaxTries

(* "Dropping those would lose exactly the ones worth seeing" (ui.rs:318):  *)
(* whatever screen was up when an event came, all are written to the log,  *)
(* once each and in the order in which they came.  From the node to the    *)
(* log there is one line.                                                  *)
Way == INSTANCE Channel WITH
           Ends <- {"ui"},
           Messages <- Events,
           Bound <- MaxEvents,
           transit <- [e \in {"ui"} |-> replay \o pending \o sink \o events],
           got <- [e \in {"ui"} |-> applied]

LogIsALine == Way!Spec

(* ... and once there is a log, they are written unless the user leaves.   *)
AllWritten ==
    screen = "chat" ~> (screen = "closed" \/ Len(applied) = emitted)

(* Scrolling up stops the following, or "the next message would yank the   *)
(* reader straight back to the bottom" (ui.rs:656): the lines move only    *)
(* for who looks at the newest, or by a key.                               *)
NotDragged ==
    [][keys' = keys /\ top < Bottom(laid) /\ rows >= laid => top' = top]_vars

(* "Anyone pressing Enter has stopped reading history, and would otherwise *)
(* be sending into a log they cannot see" (ui.rs:758): from Enter or       *)
(* Ctrl+E on the newest line is in sight, until they page back again.      *)
NewestInSight == screen = "chat" /\ live /\ laid = rows => top = Bottom(rows)

(* Esc works "whichever screen is up" (ui.rs:426): there always is a way   *)
(* out.                                                                    *)
EscQuits == esc ~> screen = "closed"
=============================================================================
