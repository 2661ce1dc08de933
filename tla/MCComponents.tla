---------------------------- MODULE MCComponents ----------------------------
(***************************************************************************)
(* The components that share no state with the others, checked in one run: *)
(* a request on its way through the API, a paginated list, the parsing of  *)
(* keys, the upgrade probe, the certificate tool and a TLS connection.     *)
(* One of them is at work; the others rest in an initial state.            *)
(***************************************************************************)
EXTENDS Api, PagedList, Names, Monitor, Certgen, Admission

VARIABLE part    \* the component at work

partVars == <<part, apiVars, listVars, namesVars, monitorVars, certVars, admVars>>

Parts == {"api", "list", "names", "monitor", "certgen", "admission"}

(* The states of rest. *)
ApiRests == level = 1 /\ req = [method |-> "GET", path |-> "other", json |-> TRUE,
                                name |-> "good", body |-> EmptyBody]
ListRests == store = [k \in Deployments |-> 0] /\ informed = FALSE
NamesRest == key = <<>>
MonitorRests == controlled = FALSE
AdmissionRests ==
    setup = [tool |-> "tlscheck", noCert |-> TRUE,
             cert |-> [ca |-> "ours", usage |-> "client", uris |-> {DefaultClientURI}],
             server |-> [ca |-> "ours", name |-> "localhost", clientCA |-> "ours",
                         allowed |-> DefaultClientURI]]

PartsInit ==
    /\ part \in Parts
    /\ part # "api" => ApiRests
    /\ part # "list" => ListRests
    /\ part # "names" => NamesRest
    /\ part # "monitor" => MonitorRests
    /\ part # "admission" => AdmissionRests
    /\ ApiInit /\ ListInit /\ NamesInit /\ MonitorInit /\ CertInit /\ AdmInit

Api(A) == part = "api" /\ A /\ UNCHANGED <<part, listVars, namesVars, monitorVars, certVars, admVars>>
Listing(A) == part = "list" /\ A /\ UNCHANGED <<part, apiVars, namesVars, monitorVars, certVars, admVars>>
Parsing(A) == part = "names" /\ A /\ UNCHANGED <<part, apiVars, listVars, monitorVars, certVars, admVars>>
Probing(A) == part = "monitor" /\ A /\ UNCHANGED <<part, apiVars, listVars, namesVars, certVars, admVars>>
Making(A) == part = "certgen" /\ A /\ UNCHANGED <<part, apiVars, listVars, namesVars, monitorVars, admVars>>
Connecting(A) == part = "admission" /\ A /\ UNCHANGED <<part, apiVars, listVars, namesVars, monitorVars, certVars>>

PartsNext ==
    \/ Api(ApiNext) \/ Listing(ListNext) \/ Parsing(NamesNext)
    \/ Probing(MonitorNext) \/ Making(CertNext) \/ Connecting(AdmNext)

(* Each component has the fairness of its own module. *)
PartsSpec ==
    /\ PartsInit /\ [][PartsNext]_partVars
    /\ WF_partVars(Api(Handler)) /\ WF_partVars(Api(Expire))
    /\ WF_partVars(Listing(ListStep))
    /\ WF_partVars(Probing(Step)) /\ WF_partVars(Probing(TimePasses))
    /\ SF_partVars(Probing(SelectDeadline))

-----------------------------------------------------------------------------
(* Answered and MonitorReturns, of the component that is at work: a request*)
(* that was sent is answered although the API server may never answer, and *)
(* a monitor that was started returns, however slow its samples are.       *)
RequestAnswered == part = "api" => Answered
StartedMonitorReturns == part = "monitor" => MonitorReturns
=============================================================================
