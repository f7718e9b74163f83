---------------------------- MODULE MCComponents ----------------------------
(* Components that share no state with each other, checked side by side: in    *)
(* every behaviour one of them runs and the others stay in their initial state.*)
EXTENDS ModelUpdates, ModelQueries, MCFlows, SocialDNA, SubscriptionProxy

CONSTANTS title, tags, state

VARIABLE part   \* the component that runs

onlyModel == <<copy, reload, newest, started, deletes>>
onlyQuery == <<readerVars, created, writes>>
onlyFlow == <<furthest, asking, unchecked, wasIn, actions>>

componentsVars ==
    <<part, commandVars, onlyModel, onlyQuery, onlyFlow, dnaVars, proxyVars>>

ComponentsInit ==
    /\ part \in {"model", "query", "flow", "dna", "proxy"}
    /\ ModelInit /\ QueryInit /\ FlowInit
    /\ DnaInit /\ (part # "dna" => way = "addShacl")
    /\ ProxyInit

RunModel ==
    /\ part = "model" /\ ModelNext
    /\ UNCHANGED <<onlyQuery, onlyFlow, dnaVars, proxyVars>>

RunQuery ==
    /\ part = "query" /\ QueryNext
    /\ UNCHANGED <<onlyModel, onlyFlow, dnaVars, proxyVars>>

RunFlow ==
    /\ part = "flow" /\ FlowNext
    /\ UNCHANGED <<onlyModel, onlyQuery, dnaVars, proxyVars>>

RunDna ==
    /\ part = "dna" /\ DnaNext
    /\ UNCHANGED <<modelVars, onlyQuery, onlyFlow, proxyVars>>

RunProxy ==
    /\ part = "proxy" /\ ProxyNext
    /\ UNCHANGED <<modelVars, onlyQuery, onlyFlow, dnaVars>>

ComponentsNext ==
    /\ RunModel \/ RunQuery \/ RunFlow \/ RunDna \/ RunProxy
    /\ UNCHANGED part

\* None of the fair actions is enabled in a proxy nobody subscribed with.
ComponentsSpec == ComponentsInit /\ [][ComponentsNext]_componentsVars /\ ProxyFairness

-----------------------------------------------------------------------------
(* Values of the constants *)

AllPredicates ==
    {title, tags, state} \cup {Flag(b) : b \in Bases} \cup {Rating(b) : b \in Bases}

\* Two versions of a shape.
Versions == 1 :> <<"name">> @@ 2 :> <<"name", "rating">>
=============================================================================
