----------------------------- MODULE MCScraper ------------------------------
(* Small instances of Scraper for TLC: a few devices.                       *)
EXTENDS Scraper

\* A DSL box with PPP, a radio and a few actions it does not implement.
DSLBox == [offers |-> Services \ {"WANIPConnection"}, radios |-> 1, hosts |-> 2,
           faulty |-> {"wan-utilization"}, open |-> {"device"}]

\* A cable box: no DSL; two radios, one action each open and faulty.
CableBox == [offers |-> Services \ {"WANDSLInterfaceConfig"}, radios |-> 2,
             hosts |-> 1, faulty |-> {"hosts"}, open |-> {}]

\* A repeater: no WAN side at all, no hosts known yet.
Repeater == [offers |-> {"DeviceInfo", "WLANConfiguration", "Hosts", "other"},
             radios |-> 1, hosts |-> 0, faulty |-> {}, open |-> {"hosts"}]

\* A box without radios whose DSL statistics and host entries fault.
PlainBox == [offers |-> Services \ {"WLANConfiguration", "WANPPPConnection"},
             radios |-> 0, hosts |-> 1,
             faulty |-> {"dsl-statistics", "host-entry", "wan-link"},
             open |-> {}]

\* A device that describes no service.
Silent == [offers |-> {}, radios |-> 0, hosts |-> 0, faulty |-> {}, open |-> {}]

\* A device whose host count is open to everybody, its host entries not.
HostCounter == [offers |-> {"DeviceInfo", "Hosts", "other"}, radios |-> 0, hosts |-> 1,
                faulty |-> {}, open |-> {"hosts"}]
OneHostCounter == {HostCounter}

AllDevices == {DSLBox, CableBox, Repeater, PlainBox, Silent}

\* The shortest and the longest scrape, and the device without services.
LiveDevices == {DSLBox, Repeater, Silent}

\* What a booting device describes: nothing, nothing of use, or a part.
NoParts   == {}
EmptyPart == {{}}
SomeParts == {{}, {"other"}, {"DeviceInfo", "WLANConfiguration", "other"}}

\* Configurations by their opt-in metrics, with all kinds of credentials.
With(externalIP, hostsActive, hostsInfo) ==
    [creds : Credentials, externalIP : {externalIP},
     hostsActive : {hostsActive}, hostsInfo : {hostsInfo}]

Default  == With(FALSE, FALSE, FALSE)
Counting == With(FALSE, TRUE, FALSE)
Listing  == With(TRUE, FALSE, TRUE)
Both     == Counting \cup Listing
=============================================================================
