--------------------------- MODULE RegistryProofs ---------------------------
(***************************************************************************)
(* Proofs about Registry, for every set of peers and names.                *)
(***************************************************************************)
EXTENDS Registry, TLAPS

(* The name on record is the one the peer runs under.  ClashesReported     *)
(* needs it: a connection that supersedes another enters a name that       *)
(* nobody compares, and it must be the one that was there.                 *)
OnRecord == \A p \in held : name[p] = nameOf[p]

-----------------------------------------------------------------------------
(* Types.                                                                  *)

(* Every step keeps every type.                                            *)
LEMMA TypeStep ==
    ASSUME TypeOK, [Next]_vars
    PROVE  TypeOK'
<1>1. ASSUME NEW p \in Others, NEW inbound \in BOOLEAN, AdmitNew(p, inbound)
      PROVE  TypeOK'
    <2>1. name' \in [Others -> Names]
        BY <1>1 DEF AdmitNew, Enter, TypeOK
    <2>. QED
        BY <1>1, <2>1 DEF AdmitNew, TypeOK
<1>2. ASSUME NEW p \in Others, NEW inbound \in BOOLEAN, Supersede(p, inbound)
      PROVE  TypeOK'
    BY <1>2 DEF Supersede, Enter, TypeOK
<1>3. ASSUME NEW p \in Others, Remove(p)
      PROVE  TypeOK'
    BY <1>3 DEF Remove, TypeOK
<1>4. ASSUME NEW p \in Others, Rename(p)
      PROVE  TypeOK'
    BY <1>4 DEF Rename, TypeOK
<1>. QED
    BY <1>1, <1>2, <1>3, <1>4 DEF Next, vars, TypeOK

(* Every variable of Registry keeps its type.                              *)
THEOREM TypeCorrect == Spec => []TypeOK
<1>1. Init => TypeOK
    BY DEF Init, TypeOK
<1>. QED
    BY <1>1, TypeStep, PTL DEF Spec

-----------------------------------------------------------------------------
(* Names.                                                                  *)

(* Who is entered while held was under the same name before.               *)
LEMMA SupersedeKeepsNames ==
    ASSUME TypeOK, OnRecord, NEW p \in Others, NEW inbound \in BOOLEAN,
           Supersede(p, inbound)
    PROVE  UNCHANGED vars
<1>1. p \in held
    BY DEF Supersede, Verdict
<1>2. name[p] = nameOf[p]
    BY <1>1 DEF OnRecord
<1>3. name' = name
    BY <1>2 DEF Supersede, Enter, TypeOK
<1>. QED
    BY <1>3 DEF Supersede, vars

(* Without peers that come back before they were noticed to be gone, the   *)
(* names on record are kept up to date.                                    *)
LEMMA OnRecordStep ==
    ASSUME MayOverlap = FALSE, TypeOK, OnRecord, [Next]_vars
    PROVE  OnRecord'
<1>1. ASSUME NEW p \in Others, NEW inbound \in BOOLEAN, AdmitNew(p, inbound)
      PROVE  OnRecord'
    BY <1>1 DEF AdmitNew, Enter, OnRecord, TypeOK
<1>2. ASSUME NEW p \in Others, NEW inbound \in BOOLEAN, Supersede(p, inbound)
      PROVE  OnRecord'
    BY <1>2, SupersedeKeepsNames DEF OnRecord, vars
<1>3. ASSUME NEW p \in Others, Remove(p)
      PROVE  OnRecord'
    BY <1>3 DEF Remove, OnRecord
<1>4. ASSUME NEW p \in Others, Rename(p)
      PROVE  OnRecord'
    <2>1. p \notin held
        BY <1>4 DEF Rename
    <2>2. \A q \in held : nameOf'[q] = nameOf[q]
        BY <1>4, <2>1 DEF Rename, TypeOK
    <2>. QED
        BY <1>4, <2>2 DEF Rename, OnRecord
<1>. QED
    BY <1>1, <1>2, <1>3, <1>4 DEF Next, vars, OnRecord

(* Of two peers under one name, the one that comes second finds the name   *)
(* taken.                                                                  *)
LEMMA AdmissionReports ==
    ASSUME TypeOK, ClashesReported, NEW p \in Others, NEW inbound \in BOOLEAN,
           AdmitNew(p, inbound)
    PROVE  ClashesReported'
<1>1. p \notin held /\ held' = held \cup {p}
    BY DEF AdmitNew, Verdict
<1>2. \A q \in held : name'[q] = name[q]
    BY <1>1 DEF AdmitNew, Enter, TypeOK
<1>3. name'[p] = nameOf[p]
    BY DEF AdmitNew, Enter, TypeOK
<1>4. warned \subseteq warned' /\ (Taken(nameOf[p]) => p \in warned')
    BY DEF AdmitNew
<1>5. SameName(name'[p], MyName) => p \in warned'
    BY <1>3, <1>4 DEF Taken
<1>6. ASSUME NEW q \in held,
             SameName(name'[p], name'[q]) \/ SameName(name'[q], name'[p])
      PROVE  p \in warned'
    <2>1. SameName(nameOf[p], name[q])
        BY <1>2, <1>3, <1>6 DEF SameName
    <2>. QED
        BY <1>4, <2>1 DEF Taken
<1>7. ASSUME NEW q \in held, NEW r \in held \ {q}, SameName(name'[q], name'[r])
      PROVE  {q, r} \cap warned' # {}
    BY <1>2, <1>4, <1>7 DEF ClashesReported
<1>8. \A q \in held : SameName(name'[q], MyName) => q \in warned'
    BY <1>2, <1>4 DEF ClashesReported
<1>. QED
    BY <1>1, <1>5, <1>6, <1>7, <1>8 DEF ClashesReported

(* Every step keeps the clashes reported.                                  *)
LEMMA ClashesStep ==
    ASSUME MayOverlap = FALSE, TypeOK, OnRecord, ClashesReported, [Next]_vars
    PROVE  ClashesReported'
<1>1. ASSUME NEW p \in Others, NEW inbound \in BOOLEAN, Supersede(p, inbound)
      PROVE  ClashesReported'
    BY <1>1, SupersedeKeepsNames DEF ClashesReported, vars
<1>2. ASSUME NEW p \in Others, Remove(p)
      PROVE  ClashesReported'
    BY <1>2 DEF Remove, ClashesReported
<1>3. ASSUME NEW p \in Others, Rename(p)
      PROVE  ClashesReported'
    BY <1>3 DEF Rename, ClashesReported
<1>. QED
    BY <1>1, <1>2, <1>3, AdmissionReports DEF Next, vars, ClashesReported

(* Whoever comes, leaves and returns under whatever name: two identities   *)
(* are never presented under one name without a warning (admit, peers.rs), *)
(* as long as no peer is back before its departure was noticed.            *)
THEOREM NoSilentNamesakes ==
    ASSUME MayOverlap = FALSE
    PROVE  Spec => []ClashesReported
<1>1. Init => OnRecord /\ ClashesReported
    BY DEF Init, OnRecord, ClashesReported
<1>2. TypeOK /\ OnRecord /\ ClashesReported /\ [Next]_vars
        => (OnRecord /\ ClashesReported)'
    BY OnRecordStep, ClashesStep
<1>. QED
    BY <1>1, <1>2, TypeCorrect, PTL DEF Spec
=============================================================================
