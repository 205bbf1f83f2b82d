------------------------------ MODULE MCServer ------------------------------
(***************************************************************************)
(* A server, for TLC: Config, which makes its white lists from small files *)
(* that say one of a few things of addresses and of applications; and      *)
(* Server, which runs with a pool of PoolSize io_services.  A behaviour is *)
(* about one of the two.                                                   *)
(***************************************************************************)
EXTENDS Configuration

CONSTANTS PoolSize, Clients, SilentClients, MaxHups

VARIABLES subject,
          runPc, queue, thread, stopped, next_io_service_, accepting, backlog, client,
          stopSignal, hups, reopens, reopenWaits
serverVars == <<runPc, queue, thread, stopped, next_io_service_, accepting, backlog, client,
                stopSignal, hups, reopens, reopenWaits>>

Serv == INSTANCE Server

ASSUME BoundsAssumption == Serv!Bounds

---------------------------------------------------------------------------
MCIPs == {"ip1", "ip2"}
MCApps == {"foo", "bar"}
MCInstances == {"1", "2"}

AppEntries == {[id |-> "foo", all |-> "true", instances |-> <<>>], [id |-> "foo", all |-> "", instances |-> <<"1">>],
               [id |-> "bar", all |-> "false", instances |-> <<"1", "2">>], [id |-> "bar", all |-> "", instances |-> <<>>]}
AppLists == {<<>>} \cup {<<a>> : a \in AppEntries} \cup {<<a, b>> : a \in AppEntries, b \in AppEntries}

WhiteLists(allIps, ips, allApps, apps) ==
  [wl : {TRUE}, allIps : allIps, allApps : allApps, ips : ips, apps : apps, name : {"", "x"}]
Plain == {NoFile, BadFile} \cup {[NoFile EXCEPT !.name = n] : n \in {"", "y"}}

\* Everything a file may say of addresses and of applications, in a file whose
\* other file says nothing of them, or is not there, or cannot be read.
OneList ==
  Plain \cup WhiteLists({"", "true", "false"}, {<<>>, <<"ip1">>, <<"ip1", "ip2">>}, {"", "true"}, {<<>>})
        \cup WhiteLists({"true"}, {<<>>, <<"ip1">>}, {"", "true"}, AppLists)

\* Lists of addresses in both files, all applications allowed.
IpLists == Plain \cup WhiteLists({"", "true", "false"}, {<<>>, <<"ip1">>, <<"ip2">>, <<"ip2", "ip1">>}, {"true"}, {<<>>})

\* all-ip-addrs in either file.
AllIpLists == WhiteLists({"", "true", "false"}, {<<"ip1">>}, {"true"}, {<<>>})

\* Two files of which one, either, may have a white list, or both lists of
\* addresses.
MCFilePairs == (OneList \X Plain) \cup (Plain \X OneList) \cup (IpLists \X IpLists)
AllIpPairs == AllIpLists \X AllIpLists

---------------------------------------------------------------------------
MCInit ==
  /\ Init /\ Serv!Init
  /\ \/ subject = "configuration"
     \/ subject = "server" /\ <<common, instance>> = CHOOSE pair \in FilePairs : TRUE
MCNext ==
  \/ subject = "configuration" /\ Next /\ UNCHANGED <<serverVars, subject>>
  \/ subject = "server" /\ Serv!Next /\ UNCHANGED <<vars, subject>>
MCSpec == /\ MCInit /\ [][MCNext]_<<vars, serverVars, subject>>
          /\ subject = "server" => Serv!Fairness

\* The properties of Server: a signal to stop ends run() ...
StopEndsRun == Serv!StopEndsRun
\* ... every client that sends is answered, unless the server stops ...
EveryClientAnswered == Serv!EveryClientAnswered
\* ... and a SIGHUP makes the log be reopened.
EveryHupReopens == Serv!EveryHupReopens
=============================================================================
