---- MODULE MCPlatform ----
(***************************************************************************)
(* Model-checking instance for the parts around the records: sessions,      *)
(* tenancy, the dashboard with its imports, the anomaly feed, the pages and *)
(* the start of the API.  They share no state here: each behaviour is one   *)
(* of one part, chosen at the start, while the other parts stay as they     *)
(* began.                                                                   *)
(***************************************************************************)
EXTENDS Session, Tenancy, Dashboard, Feed, Pages, Startup, TLC

VARIABLE part   \* the part that moves

platformVars == <<part, sessionVars, tenancyVars, dashVars, feedVars, pagesVars, startupVars>>

MCRolesOfUser == [planner |-> {"PLANNER"}, tech |-> {"TECHNICIAN"}]

Reading(t, s, v) == [tag |-> t, time |-> s, value |-> v]

\* Files of two rows and of one; one with a tag nobody knows, one with a row that is
\* none.  Those of one row are also what MQTT messages hold.
MCFiles == {<<Reading("a", 2, 1), Reading("b", 1, 1)>>, <<Reading("a", 1, 2), Reading("x", 1, 1)>>,
            <<Reading("a", 1, 1)>>, <<Reading("a", 1, 1), BadRow>>}

OneTwo == {1, 2}

MCTagSpecs == <<"power", "flare">>

MCMeterSpecs == <<[code |-> "CDU-FLARE", tag |-> "flare"]>>

MCSymmetry == Permutations(Scans)

\* Events, lists, scans and acknowledgements together: two scans that find nothing
\* open and one list, say, or one event with a scan, an acknowledgement and two lists.
FeedBound ==
    LET begun == {s \in Scans : scan[s].phase # "idle"} \cup {k \in Acks : ack[k].phase # "idle"}
    IN  Len(events) + Len(gets) + Cardinality(begun) < 6

\* Three starts, of the same process or of others.
StartBound ==
    LET up(s) == starter[s].starts IN up("i1") + up("i2") + up("d1") < 4

\* The parts as they begin where they do not move.
Rest(p) ==
    /\ p # "session" => UNCHANGED sessionVars
    /\ p # "tenancy" => UNCHANGED tenancyVars
    /\ p # "dashboard" => UNCHANGED dashVars
    /\ p # "feed" => UNCHANGED feedVars
    /\ p # "pages" => UNCHANGED pagesVars
    /\ p # "startup" => UNCHANGED startupVars

PlatformInit ==
    /\ part \in {"session", "tenancy", "dashboard", "feed", "pages", "startup"}
    /\ SessionInit /\ TenancyInit /\ DashInit /\ FeedInit /\ PagesInit /\ StartupInit
    /\ part # "tenancy" => restricted
    /\ part # "feed" => events = <<>>
    /\ part # "pages" => view.page = "orders" /\ view.canEdit
    /\ part # "startup" => \A t \in DOMAIN limits : limits[t] = "none"

PlatformNext ==
    /\ UNCHANGED part
    /\ \/ part = "session" /\ SessionNext /\ Rest(part)
       \/ part = "tenancy" /\ TenancyNext /\ Rest(part)
       \/ part = "dashboard" /\ DashNext /\ Rest(part)
       \/ part = "feed" /\ FeedNext /\ FeedBound' /\ Rest(part)
       \/ part = "pages" /\ PagesNext /\ Rest(part)
       \/ part = "startup" /\ StartupNext /\ StartBound' /\ Rest(part)

PlatformSpec == PlatformInit /\ [][PlatformNext]_platformVars

\* Every part keeps the shape of its state.
PlatformTypeOK ==
    CASE part = "session" -> SessionTypeOK
      [] part = "tenancy" -> TenancyTypeOK
      [] part = "dashboard" -> DashTypeOK
      [] part = "feed" -> FeedTypeOK
      [] part = "pages" -> PagesTypeOK
      [] part = "startup" -> StartupTypeOK
====
