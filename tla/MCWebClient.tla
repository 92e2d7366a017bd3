----------------------------- MODULE MCWebClient -----------------------------
(* One story of every kind: two stories that differ in nothing an action or a *)
(* property looks at have the same behaviours.                                *)
EXTENDS WebClient

\* All that an action or a property looks at.
Character(s) ==
    [views |-> <<s.views, s.leads>>,
     may |-> <<s.may, <<s.role, s.query>> \in Withheld>>,
     picked |-> <<<<s.kind, s.query>> \in Picked, <<s.kind, s.query>> \in DialogSays>>,
     told |-> <<Invalidates(s.kind, s.query), SetsData(s.kind, s.query), Untold(s)>>,
     button |-> <<s.kind \in Forgetful, s.kind \in Rapid, s.kind = Payment>>,
     layout |-> <<s.query \in AppLayout, s.query = <<"notifications", "unread-count">>>>]

MCStories ==
    LET told == {<<Character(s), s>> : s \in Stories}
    IN  {(CHOOSE t \in told : t[1] = c)[2] : c \in {t[1] : t \in told}}

MCInit == story \in MCStories /\ ClientInit

MCSpec == MCInit /\ [][ClientNext]_clientVars
=============================================================================
