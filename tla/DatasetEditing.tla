---------------------------- MODULE DatasetEditing ----------------------------
(***************************************************************************)
(* A dataset edited, saved and loaded.  meant maps each type to what its   *)
(* TLV should say: a security policy says a rotation time, a version       *)
(* threshold and the flags that have nothing to do with the threshold.     *)
(***************************************************************************)
EXTENDS Story, TlvCodec

CONSTANTS
    Datasets,           \* datasets read from the wire
    Edits               \* TLVs that are written into them

EditTypes == {TLV_PAN_ID, TLV_SECURITY_POLICY}

ASSUME DatasetAssumption == Datasets \subseteq Seq(TlvEntry)
ASSUME EditAssumption == Edits \subseteq [ty : EditTypes, value : Seq(Byte)]

\* The flags that have nothing to do with the threshold.
OtherFlags(flags) ==
    LET low == flags % 8192
    IN  IF Legacy(low) THEN low - LEGACY_ROUTERS_ENABLED ELSE low
Policy(value) ==
    LET p == PolicyParse(value)[1]
    IN  IF PolicyParse(value) = Err
        THEN [rotation_time |-> 0, version |-> "invalid", other |-> 0]
        ELSE [rotation_time |-> p.rotation_time,
              version |-> version_threshold_for_routing(p.flags),
              other |-> OtherFlags(p.flags)]
Says(ty, raw) ==
    Then(raw, LAMBDA value :
        Ok(IF ty = TLV_SECURITY_POLICY THEN Policy(value) ELSE value))

InMemory(tlvs) == [form |-> "tlvs", tlvs |-> tlvs, bytes |-> <<>>]
Saved(bytes) == [form |-> "bytes", tlvs |-> <<>>, bytes |-> bytes]

InitDataset ==
    /\ part = "dataset"
    /\ \E d \in Datasets :
         /\ meant = [ty \in EditTypes |-> Says(ty, last_value(d, ty))]
         /\ held = InMemory(d)

SetRaw(e) ==
    /\ part = "dataset" /\ held.form = "tlvs"
    /\ held' = InMemory(set_raw(held.tlvs, e.ty, e.value))
    /\ meant' = [meant EXCEPT ![e.ty] = Says(e.ty, Ok(e.value))]
    /\ UNCHANGED part

RemoveAll(ty) ==
    /\ part = "dataset" /\ held.form = "tlvs"
    /\ held' = InMemory(remove_all(held.tlvs, ty))
    /\ meant' = [meant EXCEPT ![ty] = Err]
    /\ UNCHANGED part

\* The security policy is read, its version threshold set, and written back.
SetThreshold(version) ==
    LET stored == accessor(held.tlvs, TLV_SECURITY_POLICY)
        policy == PolicyParse(stored.value)[1]
        said == meant[TLV_SECURITY_POLICY][1]
    IN  /\ part = "dataset" /\ held.form = "tlvs" /\ stored.st = "present"
        /\ held' = InMemory(set_raw(held.tlvs, TLV_SECURITY_POLICY, PolicyToValue(
               [rotation_time |-> policy.rotation_time,
                flags |-> set_version_threshold_for_routing(policy.flags, version)])))
        /\ meant' = [meant EXCEPT ![TLV_SECURITY_POLICY] =
               Ok([rotation_time |-> said.rotation_time, version |-> version,
                   other |-> said.other])]
        /\ UNCHANGED part

\* A value that is too long for its length field leaves the dataset unsaved.
Save ==
    /\ part = "dataset" /\ held.form = "tlvs"
    /\ TlvSetEncode(held.tlvs) # Err
    /\ held' = Saved(TlvSetEncode(held.tlvs)[1])
    /\ UNCHANGED <<part, meant>>

Load ==
    /\ part = "dataset" /\ held.form = "bytes"
    /\ held' = InMemory(TlvSetParse(held.bytes)[1])
    /\ UNCHANGED <<part, meant>>

EditDataset ==
    \/ \E e \in Edits : SetRaw(e)
    \/ \E ty \in EditTypes : RemoveAll(ty)
    \/ \E version \in Versions : SetThreshold(version)
    \/ Save
    \/ Load

DatasetSpec == InitDataset /\ [][EditDataset]_vars

-------------------------------------------------------------------------------
\* DatasetReadsBack: whatever sequence of set_raw, remove_all, threshold
\* changes, saves and loads a dataset goes through, and whatever duplicates it
\* arrived with, the PAN ID and the security policy read back as last written;
\* changing the version threshold changes no other flag and reads back as the
\* version set.
DatasetReadsBack ==
    (part = "dataset" /\ held.form = "tlvs") =>
        \A ty \in EditTypes : Says(ty, last_value(held.tlvs, ty)) = meant[ty]

===============================================================================
