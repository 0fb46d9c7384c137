-------------------------- MODULE MCVerdictStream --------------------------
EXTENDS VerdictStream

EventsValue == {"ok", "flagged", "odd", "bad"}
KindValue == [i \in EventsValue |->
    CASE i = "odd" -> "future" [] i = "bad" -> "invalid" [] OTHER -> "sound"]
FactValue == [i \in EventsValue |->
    CASE i = "ok" -> [day |-> 0, verdict |-> "approved", categories |-> <<>>]
      [] i = "flagged" -> [day |-> 1, verdict |-> "rejected",
                           categories |-> <<"spam", "hate">>]
      [] OTHER -> [day |-> 1, verdict |-> "other", categories |-> <<"spam">>]]
=============================================================================
