----------------------------- MODULE MCForwarder -----------------------------
(***************************************************************************)
(* Names for Forwarder: a host in two spellings, which feeds and clients   *)
(* mix and which a feed may leave out, one that the classifier flags, and  *)
(* an address that a feed lists.                                           *)
(***************************************************************************)
EXTENDS Forwarder

LowerFn == [s \in Spellings |-> IF s = "Ads" THEN "ads" ELSE s]

Entry(s) == [kind |-> "entry", name |-> s]
Comment  == [kind |-> "other"]

FeedTexts == {{Comment, Entry("Ads")}, {Entry("ads"), Entry("10.0.0.1")}, {Comment}}

==============================================================================
