---------------------------- MODULE MCPublisher ----------------------------
(* Both loops around a publish: a behaviour runs the one part names, the
   other stays as it started.
   failover (EndpointFailover): two endpoints of two attempts, a window of
   two objects and a source of MaxObjects.
   lifecycle (PublisherLifecycle): one publish on each route, with a retry
   and a migration and one disconnect(); group IDs end at 3, which a
   session of two fragments reaches. *)
EXTENDS EndpointFailover, PublisherLifecycle

VARIABLE part

MCScenarios ==
  {[route |-> "batch", draft22 |-> TRUE, input |-> 0],
   [route |-> "fragments", draft22 |-> TRUE, input |-> 2],
   [route |-> "objects", draft22 |-> TRUE, input |-> 3],
   [route |-> "objects", draft22 |-> FALSE, input |-> 1],
   [route |-> "libmoqPlan", draft22 |-> FALSE, input |-> 0],
   [route |-> "libmoqLive", draft22 |-> FALSE, input |-> 0]}

mcVars == <<part, vars, lifecycleVars>>

FailoverPart(A) == part = "failover" /\ A /\ UNCHANGED <<part, lifecycleVars>>
LifecyclePart(A) == part = "lifecycle" /\ A /\ UNCHANGED <<part, vars>>

MCInit ==
  /\ part \in {"failover", "lifecycle"} /\ Init /\ LifecycleInit
  /\ part = "failover" => scenario = CHOOSE s \in MCScenarios : TRUE

MCNext == FailoverPart(Next) \/ LifecyclePart(LifecycleNext)

\* The fairness of EndpointFailover and of PublisherLifecycle.
MCFairness ==
  /\ WF_mcVars(FailoverPart(PublishThread))
  /\ WF_mcVars(FailoverPart(sessionClosed /\ \E kind \in SessionOutcomes : SessionEnds(kind)))
  /\ WF_mcVars(FailoverPart(MonitorSeesSignal)) /\ WF_mcVars(FailoverPart(Disconnect))
  /\ WF_mcVars(LifecyclePart(Lifecycle))
  /\ WF_mcVars(LifecyclePart(DisconnectCloses \/ DisconnectEnds))
  /\ WF_mcVars(LifecyclePart(pub.pc = "run" /\ Closed /\ SessionFails))
  /\ WF_mcVars(LifecyclePart(shared.handle = "cancelled" /\ LibmoqReturns))

MCSpec == MCInit /\ [][MCNext]_mcVars /\ MCFairness

\* A stop ends the publish: a signal the loop over endpoints, and disconnect()
\* the publish of one endpoint, unless a later attempt forgets it.
StopsEnd == StopEnds /\ DisconnectEndsPublish
=============================================================================
