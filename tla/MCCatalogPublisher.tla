----------------------- MODULE MCCatalogPublisher -----------------------
EXTENDS CatalogPublisher, TLC

Plain == [attr |-> "plain", protected |-> FALSE]
Other == [attr |-> "other", protected |-> FALSE]
Bad == [attr |-> "bad", protected |-> FALSE]
Protected == [attr |-> "plain", protected |-> TRUE]

Make(tracks, protections, root) ==
  [tracks |-> tracks, protections |-> protections, root |-> root,
   complete |-> FALSE, live |-> TRUE]

MCDesired ==
  {Make("v" :> Plain, FALSE, 0),
   Make("v" :> Plain @@ "a" :> Plain, FALSE, 0),
   Make("v" :> Other @@ "a" :> Plain, FALSE, 0),
   Make("v" :> Plain @@ "a" :> Bad, FALSE, 0),
   Make("a" :> Plain, FALSE, 1),
   Make("v" :> Protected, FALSE, 0),
   Make("v" :> Protected @@ "a" :> Plain, TRUE, 0)}
=============================================================================
