-------------------------- MODULE MCUsbEnumeration --------------------------
(***************************************************************************)
(* What may be plugged in, for the runs of UsbEnumeration.                 *)
(***************************************************************************)
EXTENDS UsbEnumeration

CONSTANTS A, B, C

Topology(root, n, plugged, alternate) ==
  [root |-> root, ports |-> [h \in Hubs |-> n], plugged |-> plugged, alternate |-> alternate]

(* One kind of set for each port of a hub. *)
Plugs(k0, k1, k2, k3) ==
  {f \in [0 .. 3 -> k0 \cup k1 \cup k2 \cup k3] :
     f[0] \in k0 /\ f[1] \in k1 /\ f[2] \in k2 /\ f[3] \in k3}

(* Keyboard and mouse at most once. *)
Single(f) ==
  \A k \in Drivers : Cardinality({d \in Hubs \X (0 .. 3) : f[d[1]][d[2]] = k}) <= 1

Inner == Plugs({"none", "keyboard"}, {"none", "mouse"}, {"none", "unsupported"}, {"none"})

(* Hub A with the given kinds in its ports, hub B in port 0 of A or nowhere. *)
Boards(k0, k1, k2, k3, alternate) ==
  {Topology(A, 4, f, alternate) :
     f \in {g \in [Hubs -> Plugs(k0, k1, k2, k3) \cup Inner] :
              /\ Single(g) /\ g[A] \in Plugs(k0, k1, k2, k3)
              /\ \A p \in 0 .. 3 : g[B][p] # B /\ (g[A][0] # B => g[B][p] = "none")}}

(* The highest port holds nothing that has no driver. *)
GoodBoards ==
  Boards({"none", "keyboard", B}, {"none", "keyboard", "unsupported"},
         {"none", "mouse", "unsupported", "singleTT"}, {"none", "keyboard", "mouse"}, TRUE)

BadBoards ==
  Boards({"none", B, "badDevice"}, {"none", "keyboard", "badConfig"},
         {"none", "mouse", "unsupported"}, {"none", "keyboard", "badParse"}, FALSE)

AnyBoards == GoodBoards \cup BadBoards

(* Single boards outside of AnyBoards, on which a claim of the code fails. *)
OneHub(n, f) ==
  Topology(A, n, [h \in Hubs |-> [p \in 0 .. MaxPorts - 1 |->
                    IF h = A /\ p \in DOMAIN f THEN f[p] ELSE "none"]], FALSE)

UnknownOnTop == {OneHub(4, [p \in {2, 3} |-> IF p = 3 THEN "unsupported" ELSE "keyboard"])}
FivePorts    == {OneHub(5, [p \in {4} |-> "keyboard"])}
TwoKeyboards == {OneHub(4, [p \in {2, 3} |-> "keyboard"])}
RootKeyboard == {[OneHub(4, [p \in {} |-> "none"]) EXCEPT !.root = "keyboard"]}
ChainOfHubs  == {[OneHub(4, [p \in {0} |-> B]) EXCEPT !.plugged[B][0] = C]}
=============================================================================
