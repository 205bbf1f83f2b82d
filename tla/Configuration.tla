--------------------------- MODULE Configuration ---------------------------
(***************************************************************************)
(* kisscpp::Config: the file common to the instances of an application is  *)
(* loaded, the instance's own file is merged into it, and the white lists  *)
(* are made from the result.  A file is given as its tree, with what it    *)
(* says kept beside it, for the properties to compare with.                *)
(***************************************************************************)
EXTENDS PropertyTree, FiniteSets

CONSTANTS IPs, Apps, Instances,
          FilePairs   \* what the two files may say

\* What a file says: allIps and allApps are "true", "false" or "" if absent;
\* ips is the list of addresses and apps that of applications; an empty list
\* is absent.  A file may also not exist, or not be JSON.
Says == [wl : BOOLEAN, allIps : {"", "true", "false"}, allApps : {"", "true", "false"},
         ips : Seq(IPs), apps : Seq([id : Apps, all : {"", "true", "false"}, instances : Seq(Instances)]),
         name : {"", "x", "y"}]
NoFile == [wl |-> FALSE, allIps |-> "", allApps |-> "", ips |-> <<>>, apps |-> <<>>, name |-> "no file"]
BadFile == [NoFile EXCEPT !.name = "not json"]

ASSUME FilesAssumption == \A pair \in FilePairs : {pair[1], pair[2]} \subseteq Says \cup {NoFile, BadFile}

VARIABLES
  common, instance,                \* what the files say
  pc,                              \* "common", "instance", "populate", "ready", "failed"
  cfg_data,
  allow_all_ip_addrs, allow_all_applications,
  comms_white_list_ip_addrs,       \* a set
  comms_white_list_applications    \* application -> whether all its instances, and which, are allowed

lists == <<allow_all_ip_addrs, allow_all_applications, comms_white_list_ip_addrs, comms_white_list_applications>>
vars == <<common, instance, pc, cfg_data, lists>>

---------------------------------------------------------------------------
(* The tree of a file *)

Scalar(key, v) == IF v = "" THEN <<>> ELSE <<Kid(key, Leaf(v))>>
List(key, kids) == IF kids = <<>> THEN <<>> ELSE <<Kid(key, Node(kids))>>
Each(s, Op(_)) == [i \in DOMAIN s |-> Op(s[i])]

AppTree(a) == Kid("application", Node(Scalar("id", a.id) \o Scalar("all-instances", a.all)
                \o List("instance-list", Each(a.instances, LAMBDA x : Kid("id", Leaf(x))))))

WhiteListTree(f) ==
  Scalar("all-ip-addrs", f.allIps) \o Scalar("all-apps", f.allApps)
    \o List("ip-list", Each(f.ips, LAMBDA x : Kid("ip", Leaf(x))))
    \o List("application-list", Each(f.apps, AppTree))

FileTree(f) ==
  Node(Scalar("name", f.name) \o (IF f.wl THEN <<Kid("kcc-white-list", Node(WhiteListTree(f)))>> ELSE <<>>))

---------------------------------------------------------------------------
Init ==
  /\ \E pair \in FilePairs : common = pair[1] /\ instance = pair[2]
  /\ pc = "common" /\ cfg_data = EmptyTree
  /\ allow_all_ip_addrs = FALSE /\ allow_all_applications = FALSE
  /\ comms_white_list_ip_addrs = {} /\ comms_white_list_applications = <<>>

\* loadConfig(path, tree): reading a file that is not JSON throws.
Load(f, tree, next) ==
  \/ f = BadFile /\ pc' = "failed" /\ UNCHANGED cfg_data
  \/ f # BadFile /\ pc' = next /\ cfg_data' = tree

LoadCommon ==
  /\ pc = "common"
  /\ Load(common, IF common = NoFile THEN cfg_data ELSE FileTree(common), "instance")
  /\ UNCHANGED <<common, instance, lists>>

LoadInstance ==
  /\ pc = "instance"
  /\ Load(instance,
          IF instance = NoFile THEN cfg_data
          ELSE IF common = NoFile THEN FileTree(instance)
          ELSE PtreeMerge(cfg_data, FileTree(instance)), "populate")
  /\ UNCHANGED <<common, instance, lists>>

\* populateWhiteLists()
WL(key) == <<"kcc-white-list", key>>
HasWhiteList == Find(cfg_data, "kcc-white-list") # 0
AllIpsByDefault == Get(cfg_data, WL("all-ip-addrs"), "true") = "true"
AllIps == Get(cfg_data, WL("all-ip-addrs"), "false") = "true"
AllApps == Get(cfg_data, WL("all-apps"), "false") = "true"
IpList == GetChild(cfg_data, WL("ip-list"))
AppList == GetChild(cfg_data, WL("application-list"))

\* The value of a child, as the code takes it: its data.
ValuesOf(t) == {t.kids[i].tree.data : i \in DOMAIN t.kids}

IsApp(i) == AppList.kids[i].key = "application"
AppId(i) == Get(AppList.kids[i].tree, <<"id">>, "")
AllInstances(i) == Get(AppList.kids[i].tree, <<"all-instances">>, "false") = "true"
InstanceList(i) == GetChild(AppList.kids[i].tree, <<"instance-list">>)
Entries == {i \in DOMAIN AppList.kids : IsApp(i)}

\* get_child() and get() throw for a node that is not there.
ListsMissing ==
  \/ ~AllIps /\ IpList = Missing
  \/ ~AllApps /\ (AppList = Missing \/ \E i \in Entries : AppId(i) = "" \/ (~AllInstances(i) /\ InstanceList(i) = Missing))

\* The last entry of an application says whether all its instances are
\* allowed; the instances of its entries are put together.
Application(id) ==
  LET of == {i \in Entries : AppId(i) = id}
  IN  [all |-> AllInstances(CHOOSE i \in of : \A j \in of : j <= i),
       instances |-> UNION {ValuesOf(InstanceList(i)) : i \in {j \in of : ~AllInstances(j)}}]

PopulateWhiteLists ==
  /\ pc = "populate"
  /\ \/ /\ ~HasWhiteList /\ pc' = "ready"
        /\ allow_all_ip_addrs' = TRUE /\ allow_all_applications' = TRUE
        /\ UNCHANGED <<comms_white_list_ip_addrs, comms_white_list_applications>>
     \/ /\ HasWhiteList /\ ListsMissing /\ pc' = "failed" /\ UNCHANGED lists
     \/ /\ HasWhiteList /\ ~ListsMissing /\ pc' = "ready"
        /\ allow_all_ip_addrs' = AllIps /\ allow_all_applications' = AllApps
        /\ comms_white_list_ip_addrs' = IF AllIps THEN {} ELSE ValuesOf(IpList)
        /\ comms_white_list_applications' =
             IF AllApps THEN <<>> ELSE [id \in {AppId(i) : i \in Entries} |-> Application(id)]
  /\ UNCHANGED <<common, instance, cfg_data>>

Next == LoadCommon \/ LoadInstance \/ PopulateWhiteLists

Spec == Init /\ [][Next]_vars

---------------------------------------------------------------------------
(* Queries *)

IsAllowedIp(ip) == allow_all_ip_addrs \/ ip \in comms_white_list_ip_addrs

IsAllowedClientAnyInstance(app, inst) == allow_all_applications \/ app \in DOMAIN comms_white_list_applications
IsAllowedClient(app, inst) ==
  \/ allow_all_applications
  \/ /\ app \in DOMAIN comms_white_list_applications
     /\ comms_white_list_applications[app].all \/ inst \in comms_white_list_applications[app].instances

---------------------------------------------------------------------------
(* Properties *)

Files == {common, instance}
InSeq(x, s) == \E i \in DOMAIN s : s[i] = x

\* No address is let in that neither file lists, unless a file says that all
\* are or there is no white list: a server whose white list has neither a list
\* of addresses nor all-ip-addrs does not start, let alone open.
NeverOpenUnasked ==
  pc = "ready" /\ (\E f \in Files : f.wl) =>
    \A ip \in IPs : IsAllowedIp(ip) => \E f \in Files : f.wl /\ (f.allIps = "true" \/ InSeq(ip, f.ips))

\* Where one file has a white list, an application that it lists once, or not
\* at all, is allowed as it says.  This is not so if that is the instance's
\* file, there is a common file, and the list has more than one application:
\* ptreeMerge() then loses all but the first.
Merged(f) == f = instance /\ common # NoFile
AppsAsListed ==
  \A f \in Files :
    pc = "ready" /\ f.wl /\ f.allApps # "true" /\ (\A g \in Files \ {f} : ~g.wl) /\ (Merged(f) => Len(f.apps) <= 1) =>
      \A app \in {a \in Apps : \A i, j \in DOMAIN f.apps : f.apps[i].id = a /\ f.apps[j].id = a => i = j}, inst \in Instances :
        IsAllowedClient(app, inst) <=>
          \E i \in DOMAIN f.apps : f.apps[i].id = app /\ (f.apps[i].all = "true" \/ InSeq(inst, f.apps[i].instances))

\* all-ip-addrs set to true in either file takes effect over any list of
\* addresses.
AllIpsPrevails == pc = "ready" /\ (\E f \in Files : f.wl /\ f.allIps = "true") => \A ip \in IPs : IsAllowedIp(ip)
===========================================================================
