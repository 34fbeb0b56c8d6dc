---------------------------- MODULE MCComponents ----------------------------
(***************************************************************************)
(* Small instances of components that do not share state, each on its own: *)
(* the initial state chooses one, and the others keep one fixed initial    *)
(* state.                                                                  *)
(***************************************************************************)
EXTENDS MCTaskDependencies, ManagedLink, WireGuardApply, Middleware, LinkMonitor, SelfUpgrade

VARIABLE component
allVars == <<component, vars, linkVars, wgVars, mwVars, monVars, upVars>>

ComponentInit ==
  /\ component \in {"walk", "link", "wireguard", "middleware", "monitor", "upgrade"}
  /\ Init
  /\ component # "walk" => node = [t \in TaskId |-> CHOOSE n \in Nodes : TRUE]
  /\ LinkInit
  /\ component # "link" => scenario = (CHOOSE S \in Scenarios : TRUE) /\ link.mw = NoMw
  /\ WgInit
  /\ component # "wireguard" =>
       manager = "direct" /\ refused = {} /\ \A n \in WgName : iface[n] = Absent
  /\ MwInit
  /\ component # "middleware" =>
       hostKind = "mimic" /\ rejected = {} /\ ~ mimic.base /\ ~ mimic.on
  /\ MonInit
  /\ component # "monitor" => ahead = 0
  /\ UpInit
  /\ component # "upgrade" => backend = "systemd" /\ bad = {}

ComponentNext ==
  /\ UNCHANGED component
  /\ \/ component = "walk" /\ Next
        /\ UNCHANGED <<linkVars, wgVars, mwVars, monVars, upVars>>
     \/ component = "link" /\ LinkNext
        /\ UNCHANGED <<vars, wgVars, mwVars, monVars, upVars>>
     \/ component = "wireguard" /\ WgNext
        /\ UNCHANGED <<vars, linkVars, mwVars, monVars, upVars>>
     \/ component = "middleware" /\ MwNext
        /\ UNCHANGED <<vars, linkVars, wgVars, monVars, upVars>>
     \/ component = "monitor" /\ MonNext
        /\ UNCHANGED <<vars, linkVars, wgVars, mwVars, upVars>>
     \/ component = "upgrade" /\ UpNext
        /\ UNCHANGED <<vars, linkVars, wgVars, mwVars, monVars>>

\* An upgrade that has not begun has nothing enabled that its fairness speaks of.
ComponentSpec == ComponentInit /\ [][ComponentNext]_allVars /\ UpFairness

\* The state of each component is what its module says it is: the sides, tasks and
\* nodes of a link, the interfaces of a host, middleware processes only under a
\* service that is on, monitors due only if enabled, an agent process only under a
\* started service.
ComponentTypeOK == LinkTypeOK /\ WgTypeOK /\ MwTypeOK /\ MonTypeOK /\ UpTypeOK
=============================================================================
