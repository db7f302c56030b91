----------------------------- MODULE VmcsStore ------------------------------
(***************************************************************************)
(* What a hypervisor is promised about its control structures (vmx.rs:13-18): *)
(* each region it names holds the fields written to it and a launch state,    *)
(* wherever the CPU keeps them.  A guest that runs from the current one        *)
(* changes what exits report and the guest's own state, never a control or     *)
(* the host's state, but for the event that an entry consumes.                *)
(***************************************************************************)
EXTENDS Integers
CONSTANTS Region, Field, Nowhere,  \* regions, fields, and the lack of a current one
          ErrorField,              \* VM_INSTRUCTION_ERROR
          Reported,                \* fields that a guest's run may change
          Fixed                    \* fields that a hypervisor cannot write
VARIABLES data, launched, current
vars == <<data, launched, current>>

(* some fields of one region change, and no others *)
Change(r, fields) ==
  /\ \A f \in Field : data'[r][f] # data[r][f] => f \in fields
  /\ \A q \in Region \ {r} : data'[q] = data[q]

Select == /\ current' \in Region \cup {Nowhere} /\ UNCHANGED <<data, launched>>
Clear  == \E r \in Region : /\ launched' = [launched EXCEPT ![r] = FALSE]
                            /\ current' = IF current = r THEN Nowhere ELSE current
                            /\ UNCHANGED data
SetField == /\ current # Nowhere
            /\ \E f \in Field \ Fixed : Change(current, {f})
            /\ UNCHANGED <<launched, current>>
Fail == /\ current # Nowhere /\ Change(current, {ErrorField})
        /\ UNCHANGED <<launched, current>>
Enter == /\ current # Nowhere /\ Change(current, Reported)
         /\ launched' = [launched EXCEPT ![current] = TRUE] /\ UNCHANGED current
Exit == /\ current # Nowhere /\ launched[current] /\ Change(current, Reported)
        /\ UNCHANGED <<launched, current>>

Init == /\ current = Nowhere \/ current \in Region
        /\ launched \in [Region -> BOOLEAN]
Next == Select \/ Clear \/ SetField \/ Fail \/ Enter \/ Exit
Spec == Init /\ [][Next]_vars
=============================================================================
