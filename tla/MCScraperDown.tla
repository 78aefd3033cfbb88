--------------------------- MODULE MCScraperDown ---------------------------
(* Scraper with a record of where a scrape has its service list from.       *)
EXTENDS MCScraper

VARIABLE fetched   \* has the device described itself in this scrape?

InitDown == Init /\ fetched = FALSE

NextDown ==
    /\ Next
    /\ fetched' = (pc # "idle" /\ (fetched \/ (pc = "fetching" /\ pc' = "device")))

SpecDown == InitDown /\ [][NextDown]_<<vars, fetched>>

RightCredentials == {c \in Default : c.creds = "right"}
OneRepeater == {Repeater}

\* A device that answers no request of a scrape fails the discovery, so that
\* the scrape returns a plain error and emits nothing (docs/troubleshooting.md).
\* A scrape whose deadline expired is excepted.
UnreachableFailsDiscovery ==
    Delivered /\ ~expired => fetched \/ \E l \in log : l.outcome # "error"
=============================================================================
