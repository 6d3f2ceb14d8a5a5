---------------------------- MODULE MCEventList ----------------------------
(* One instance of EventList for TLC: the three threads of the program, a    *)
(* list of three slots, and raises enough to fill it while one is in flight.  *)
EXTENDS EventList, TLC

CONSTANTS httpd, netlink, agent, ConnectionRequest

MCListeners == {httpd, netlink}
MCEvents == {Bootstrap, Boot, Transfer, MReboot, MDownload, ConnectionRequest}

\* Who raises what: httpd.c:338, agent.c:619, agent.c:911 and 939.
MCRaises == (httpd :> {ConnectionRequest}) @@ (netlink :> {Boot})
            @@ (agent :> {Transfer, MReboot})

MCMaxRaise == [e \in MCEvents |-> CASE e = ConnectionRequest -> 2
                                    [] e = Bootstrap -> 2
                                    [] e = MDownload -> 0
                                    [] OTHER -> 1]
=============================================================================
