---------------------------- MODULE EventDispatch ----------------------------
(***************************************************************************)
(* script/events/Handler.lua: the tables of subscribers, and the walk over *)
(* the subscribers of one event, whose handlers may subscribe, unsubscribe *)
(* or raise an error while the walk is under way.  Together with it        *)
(* script/game/components: components, which subscribe when they are       *)
(* registered, and the bucket that names them.                             *)
(*                                                                         *)
(* One thread runs all of this.  What comes in between Call and Return is  *)
(* what the handler that is called does; before the first event, it is     *)
(* the main script.                                                        *)
(***************************************************************************)
EXTENDS Naturals, FiniteSets, SequencesExt

CONSTANTS
  Event,            \* event ids
  Fn,               \* handlers that the script subscribes itself
  Component,        \* ProcessComponents
  Name,             \* names for components
  HandlerOf,        \* per component and event, its handler, or NoFn
  NoFn,             \* a handler that a component does not have
  NoComponent,      \* nil in a bucket's table
  NoName,           \* nil as a component's name
  MaxSubscriptions, \* bound on the subscribers of an event
  MaxShifts         \* bound on the removals behind one walk

ComponentFn == {HandlerOf[c][e] : c \in Component, e \in Event} \ {NoFn}

ASSUME HandlersAssumption ==
  /\ HandlerOf \in [Component -> [Event -> ComponentFn \cup {NoFn}]]
  /\ Fn \cap ComponentFn = {}
ASSUME NilsAssumption ==
  NoComponent \notin Component /\ NoName \notin Name /\ NoFn \notin Fn
ASSUME BoundAssumption == MaxSubscriptions \in Nat /\ MaxShifts \in Nat

VARIABLES
  subscriptions,  \* Events.subscriptions; a subscriber's calls in this walk are history
  mode,           \* "main", "idle", "walking", or "called"
  event,          \* the event being dispatched
  index,          \* ipairs' index into its subscribers
  shifts,         \* history: how often this walk had a subscriber behind it taken out
  components,     \* the bucket's _components
  registered,     \* per component, _isregistered
  name            \* per component, _name

vars == <<subscriptions, mode, event, index, shifts, components, registered, name>>
walk == <<mode, event, index>>
bucket == <<components, registered, name>>

Subscriber(fn) == [fn |-> fn, calls |-> 0]

Init ==
  /\ subscriptions = [e \in Event |-> <<>>]
  /\ mode = "main"
  /\ event \in Event
  /\ index = 0 /\ shifts = 0
  /\ components = [n \in Name |-> NoComponent]
  /\ registered = [c \in Component |-> FALSE]
  /\ name = [c \in Component |-> NoName]

-----------------------------------------------------------------------------
(* Subscriptions *)

\* Where the script's own code runs.
InScript == mode \in {"main", "called"}

RoomFor(e) == Len(subscriptions[e]) < MaxSubscriptions

\* Mutant: a subscriber goes to the front of the table.
SubscribedInFront(subs, e, fn) == [subs EXCEPT ![e] = <<Subscriber(fn)>> \o @]

\* Events.subscribe appends.
Subscribed(subs, e, fn) == [subs EXCEPT ![e] = Append(@, Subscriber(fn))]

\* The first subscription of a handler, 0 without one.
Find(e, fn) == SelectInSeq(subscriptions[e], LAMBDA s : s.fn = fn)

\* Mutant: the loop goes on after it removed a subscription.
UnsubscribedAll(subs, e, fn) ==
  [subs EXCEPT ![e] = SelectSeq(@, LAMBDA s : s.fn # fn)]

\* Events.unsubscribe removes the first subscription of the handler.
Unsubscribed(subs, e, fn) ==
  IF Find(e, fn) = 0 THEN subs ELSE [subs EXCEPT ![e] = RemoveAt(@, Find(e, fn))]

\* Whether that takes out a subscriber that the walk has reached.
Shifts(e, fn) ==
  IF mode = "called" /\ e = event /\ Find(e, fn) \in 1 .. index THEN 1 ELSE 0

Subscribe(e, fn) ==
  /\ InScript /\ RoomFor(e)
  /\ subscriptions' = Subscribed(subscriptions, e, fn)
  /\ UNCHANGED <<walk, shifts, bucket>>

Unsubscribe(e, fn) ==
  /\ InScript
  /\ Find(e, fn) # 0
  /\ subscriptions' = Unsubscribed(subscriptions, e, fn)
  /\ shifts' = shifts + Shifts(e, fn) /\ shifts' <= MaxShifts
  /\ UNCHANGED <<walk, bucket>>

-----------------------------------------------------------------------------
(* The walk of Events.handler over the subscribers of one event *)

\* main returns.
MainReturns ==
  /\ mode = "main"
  /\ mode' = "idle"
  /\ UNCHANGED <<subscriptions, event, index, shifts, bucket>>

\* An event is dequeued: ipairs starts before the first subscriber.
Dispatch(e) ==
  /\ mode = "idle"
  /\ mode' = "walking"
  /\ event' = e
  /\ index' = 0
  /\ UNCHANGED <<subscriptions, shifts, bucket>>

\* ipairs reads the next place of the table as it is now.
Call ==
  /\ mode = "walking"
  /\ index < Len(subscriptions[event])
  /\ mode' = "called"
  /\ index' = index + 1
  /\ subscriptions' = [subscriptions EXCEPT ![event][index + 1].calls = @ + 1]
  /\ UNCHANGED <<event, shifts, bucket>>

Return ==
  /\ mode = "called"
  /\ mode' = "walking"
  /\ UNCHANGED <<subscriptions, event, index, shifts, bucket>>

\* The walk is over; the history of calls starts anew.
Over ==
  /\ mode' = "idle"
  /\ index' = 0 /\ shifts' = 0
  /\ subscriptions' = [subscriptions EXCEPT
       ![event] = [k \in DOMAIN @ |-> Subscriber(@[k].fn)]]
  /\ UNCHANGED <<event, bucket>>

EndWalk == mode = "walking" /\ index >= Len(subscriptions[event]) /\ Over

\* An error in a handler leaves Events.handler; the next pump calls it afresh,
\* and it goes on with the event after this one.
Raise == mode = "called" /\ Over

-----------------------------------------------------------------------------
(* Components.  ComponentBucket:new keeps one object in the global o, so all  *)
(* buckets are one.                                                           *)

Handled(c) == {e \in Event : HandlerOf[c][e] # NoFn}

\* Mutant: nobody looks whether the name is taken.
AddComponentOver(c, n) ==
  /\ InScript
  /\ ~registered[c]
  /\ \A e \in Handled(c) : RoomFor(e)
  /\ subscriptions' = [e \in Event |->
       IF e \in Handled(c) THEN Append(subscriptions[e], Subscriber(HandlerOf[c][e]))
       ELSE subscriptions[e]]
  /\ registered' = [registered EXCEPT ![c] = TRUE]
  /\ name' = [name EXCEPT ![c] = n]
  /\ components' = [components EXCEPT ![n] = c]
  /\ UNCHANGED <<walk, shifts>>

\* ComponentBucket:addcomponent, Component:register, ProcessComponent:onadded.
\* A name that is taken, or a component that is registered, is an error.
\* All components of the bucket are reset in the end: what their onreset does,
\* which scripts override, comes as steps of the script, in the same mode.
AddComponent(c, n) ==
  /\ InScript
  /\ components[n] = NoComponent
  /\ ~registered[c]
  /\ \A e \in Handled(c) : RoomFor(e)
  /\ subscriptions' = [e \in Event |->
       IF e \in Handled(c) THEN Append(subscriptions[e], Subscriber(HandlerOf[c][e]))
       ELSE subscriptions[e]]
  /\ registered' = [registered EXCEPT ![c] = TRUE]
  /\ name' = [name EXCEPT ![c] = n]
  /\ components' = [components EXCEPT ![n] = c]
  /\ UNCHANGED <<walk, shifts>>

\* Component:unregister, ProcessComponent:onremoved.  The bucket is not told.
Unregister(c) ==
  /\ InScript
  /\ registered[c]
  /\ subscriptions' = [e \in Event |->
       IF e \in Handled(c) THEN Unsubscribed(subscriptions, e, HandlerOf[c][e])[e]
       ELSE subscriptions[e]]
  /\ shifts' = shifts + (IF event \in Handled(c) THEN Shifts(event, HandlerOf[c][event]) ELSE 0)
  /\ shifts' <= MaxShifts
  /\ registered' = [registered EXCEPT ![c] = FALSE]
  /\ name' = [name EXCEPT ![c] = NoName]
  /\ UNCHANGED <<walk, components>>

\* ComponentBucket:removecomponent calls unregister on the component's name, a
\* string: an error, as for a component that the bucket does not have.
RemoveComponent(c) == Raise

-----------------------------------------------------------------------------
Script ==
  \/ \E e \in Event, fn \in Fn : Subscribe(e, fn) \/ Unsubscribe(e, fn)
  \/ \E c \in Component, n \in Name : AddComponent(c, n)
  \/ \E c \in Component : Unregister(c) \/ RemoveComponent(c)
  \/ MainReturns \/ Return \/ Raise

Handler == (\E e \in Event : Dispatch(e)) \/ Call \/ EndWalk

Next == Script \/ Handler

Spec == Init /\ [][Next]_vars

-----------------------------------------------------------------------------
TypeOK ==
  /\ subscriptions \in [Event -> Seq([fn : Fn \cup ComponentFn, calls : Nat])]
  /\ mode \in {"main", "idle", "walking", "called"}
  /\ event \in Event
  /\ index \in 0 .. MaxSubscriptions /\ shifts \in 0 .. MaxShifts
  /\ components \in [Name -> Component \cup {NoComponent}]
  /\ registered \in [Component -> BOOLEAN]
  /\ name \in [Component -> Name \cup {NoName}]

\* However handlers subscribe and unsubscribe, a walk calls no subscriber twice
\* (Handler.lua:80 walks a table that its handlers change).
CalledOnce ==
  \A e \in Event : \A k \in DOMAIN subscriptions[e] :
    subscriptions[e][k].calls <= (IF e = event /\ mode \in {"walking", "called"} THEN 1 ELSE 0)

\* A walk passes a subscriber over only because one that it had reached was
\* taken out: one for each.  Without that it calls everybody, those who
\* subscribe during the walk too.
Passed == {k \in DOMAIN subscriptions[event] : k <= index /\ subscriptions[event][k].calls = 0}
MissedByRemoval == Cardinality(Passed) <= shifts

\* A registered component has a subscription of each of its handlers, also when
\* components share a handler, and an unregistered one has none: subscriptions
\* are found by handler alone (Handler.lua:57).  And it is in the bucket under its
\* own name, although one that unregisters itself stays there under its old name.
ComponentsInPlace ==
  /\ \A e \in Event, fn \in ComponentFn :
       Cardinality({k \in DOMAIN subscriptions[e] : subscriptions[e][k].fn = fn})
         = Cardinality({c \in Component : registered[c] /\ HandlerOf[c][e] = fn})
  /\ \A c \in Component : registered[c] => components[name[c]] = c
=============================================================================
