--------------------------- MODULE MCIssueRegister ---------------------------
(* Small instances of IssueRegister for TLC: one vendor whose certificates  *)
(* all begin with the vendor's own first word, so that a refreshed one      *)
(* settles every open issue.                                                *)
EXTENDS IssueRegister

MCOwnerOf == [a \in Art |-> "acme"]
MCWordOf == [a \in Art |-> "acme"]
MCVendorWords == [v \in Vendor |-> {"acme"}]
==============================================================================
