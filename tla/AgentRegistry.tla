--------------------------- MODULE AgentRegistry ---------------------------
(***************************************************************************)
(* AgentRegistry (backend/app/agents/registry.py): the agents by type, by  *)
(* id and by capability, three indexes that are written one after another. *)
(* An agent's type, id and capabilities are those of its class; of one     *)
(* class there may be several instances, which all have the same.          *)
(***************************************************************************)
EXTENDS Naturals, Sequences, SequencesExt, StableOrder

CONSTANTS AgentTypes, Capabilities, Instances, NoAgent,
          CapabilitiesOf      \* the capabilities of the class of a type

Agents == [type : AgentTypes, instance : Instances]

ASSUME RegistryAssumption == /\ CapabilitiesOf \in [AgentTypes -> SUBSET Capabilities]
                             /\ NoAgent \notin Agents

VARIABLES agentOf,      \* _agents
          agentWithId,  \* _agents_by_id; the id stands for the type it belongs to
          capableTypes  \* _capabilities_index; an absent key is an empty list

registryVars == <<agentOf, agentWithId, capableTypes>>

HasAgent(t) == agentOf[t] # NoAgent

Register(a) ==
    /\ ~HasAgent(a.type)
    /\ agentOf' = [agentOf EXCEPT ![a.type] = a]
    /\ agentWithId' = [agentWithId EXCEPT ![a.type] = a]
    /\ capableTypes' = [c \in Capabilities |->
           IF c \in CapabilitiesOf[a.type] THEN Append(capableTypes[c], a.type)
                                           ELSE capableTypes[c]]

Unregister(t) ==
    /\ HasAgent(t)
    /\ agentOf' = [agentOf EXCEPT ![t] = NoAgent]
    /\ agentWithId' = [agentWithId EXCEPT ![t] = NoAgent]
    /\ capableTypes' = [c \in Capabilities |->
           IF c \in CapabilitiesOf[t] THEN Those(capableTypes[c], LAMBDA u : u # t)
                                      ELSE capableTypes[c]]

RegistryInit == /\ agentOf = [t \in AgentTypes |-> NoAgent]
                /\ agentWithId = [t \in AgentTypes |-> NoAgent]
                /\ capableTypes = [c \in Capabilities |-> <<>>]

ClearRegistry == /\ agentOf' = [t \in AgentTypes |-> NoAgent]
                 /\ agentWithId' = [t \in AgentTypes |-> NoAgent]
                 /\ capableTypes' = [c \in Capabilities |-> <<>>]

RegistryNext == \/ \E a \in Agents : Register(a)
                \/ \E t \in AgentTypes : Unregister(t)
                \/ ClearRegistry

RegistrySpec == RegistryInit /\ [][RegistryNext]_registryVars

-----------------------------------------------------------------------------
(* get_by_capability(), which passes over what is not registered.          *)
ByCapability(c) == LET found == Those(capableTypes[c], HasAgent)
                   IN  [n \in DOMAIN found |-> agentOf[found[n]]]

(* However agents come and go, the three indexes tell one story: the id    *)
(* and the type lead to the same instance, and a capability leads to each  *)
(* registered agent that has it, once, and to no agent that has left.      *)
RegistryAgrees ==
    /\ agentWithId = agentOf
    /\ \A c \in Capabilities :
          /\ ToSet(ByCapability(c)) = {agentOf[t] : t \in {u \in AgentTypes :
                                          HasAgent(u) /\ c \in CapabilitiesOf[u]}}
          /\ IsInjective(ByCapability(c))
          /\ \A t \in ToSet(capableTypes[c]) : HasAgent(t)
=============================================================================
