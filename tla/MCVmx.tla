-------------------------------- MODULE MCVmx --------------------------------
(***************************************************************************)
(* Two regions and one without a revision; setups whose controls make each  *)
(* kind of exit happen or not; programs of two instructions, one interrupt.  *)
(***************************************************************************)
EXTENDS Hypervisor, SequencesExt
CONSTANTS A, B, Wrong, Nil

MCEncodings == {PinCtls, CpuCtls, CpuCtls2, ExitCtls, EntryCtls, ExceptionBitmap, PfErrorMask, PfErrorMatch,
                Cr3Targets, IoBitmap, MsrBitmap, EntryIntrInfo, EntryInstrLen, ExitReason, ExitIntrInfo,
                ExitInstrLen, Cr0Mask, Cr0Shadow, GuestCr0, GuestEnv, GuestEfer, GuestRip, GuestFlags,
                GuestActivity, HostCr0, HostEnv, HostCr4, HostRip, HostEfer, InstructionError,
                \h0802, \h2800, \h2801, \h483C, \h6036}

Base == <<<<PinCtls, {"extint"}>>, <<CpuCtls, {"hlt"}>>, <<CpuCtls2, {}>>, <<ExitCtls, {"hostlong", "ack"}>>,
          <<EntryCtls, {"ia32e"}>>, <<ExceptionBitmap, {"ud", "bp"}>>, <<PfErrorMask, {}>>, <<PfErrorMatch, {}>>,
          <<Cr3Targets, {}>>, <<IoBitmap, {}>>, <<MsrBitmap, {}>>, <<EntryIntrInfo, None>>, <<EntryInstrLen, 1>>,
          <<ExitReason, "none">>, <<ExitIntrInfo, None>>, <<Cr0Mask, CR0Fixed>>, <<Cr0Shadow, CR0Fixed>>,
          <<GuestCr0, CR0Fixed>>, <<GuestEnv, "a">>, <<GuestEfer, TRUE>>, <<GuestRip, Place("main", 0)>>,
          <<GuestFlags, FALSE>>, <<GuestActivity, FALSE>>, <<HostCr0, CR0Fixed>>, <<HostEnv, "host">>,
          <<HostCr4, TRUE>>, <<HostRip, Place("host", 1)>>, <<HostEfer, TRUE>>>>

Fields(pairs) ==
  FoldLeft(LAMBDA d, p : Put(d, p[1], p[2]), [work |-> [s \in Slots |-> Val(0)]], pairs).work
MCSetups(s) ==
  {Fields(Base \o more) : more \in
    CASE s = "guest" -> {<<>>,                                      \* exits for interrupts, #UD, #BP and HLT
                         <<<<PinCtls, {}>>, <<ExceptionBitmap, {}>>, <<CpuCtls, {}>>>>,    \* few exits
                         <<<<ExitCtls, {"hostlong"}>>, <<ExceptionBitmap, {"pf", "df"}>>, <<CpuCtls, {}>>>>}
      [] s = "shadow" -> {<<<<PinCtls, {}>>, <<Cr0Mask, CR0Fixed \cup {"TS"}>>, <<EntryCtls, {}>>,
                            <<CpuCtls, {"io", "msrbitmaps", "loadcr3"}>>, <<Cr3Targets, {1}>>, <<MsrBitmap, {<<"rdmsr", 0>>}>>>>,
                          <<<<PinCtls, {}>>, <<Cr0Shadow, CR0Fixed \cup {"TS"}>>, <<EntryCtls, {"loadefer"}>>,
                            <<CpuCtls, {"iobitmaps", "rdtsc", "secondary"}>>, <<IoBitmap, {1}>>, <<CpuCtls2, {"wbinvd", "rdtscp"}>>>>}
      [] OTHER -> {<<>>}}
MCTables == {Vectors, Vectors \ {"df"}, Vectors \ {"pf"}}
MCBits == {CR0Fixed, CR0Fixed \cup {"TS"}, CR0Fixed \cup {"MP"}}

I(op, p, e, v) == [op |-> op, p |-> p, e |-> e, v |-> v]
OnPointer == {"vmxon", "vmclear", "vmptrld"} \X {A, B, Own, Wrong, Misaligned, Unmapped}
MCRootOps ==
  {I(o[1], o[2], 0, Val(0)) : o \in OnPointer}
  \cup {I("vmptrst", p, 0, Val(0)) : p \in {A, Unmapped}}
  \cup {I("vmread", p, e, Val(0)) : p \in {A, Unmapped}, e \in {\h0802, \h2801, \h6036}}
  \cup {I("vmwrite", A, e[1], e[2]) : e \in {<<\h0802, Val(1)>>, <<\h2800, [lo |-> 1, hi |-> 1]>>, <<\h2801, Val(2)>>,
                                            <<\h440C, Val(1)>>, <<\h6036, Val(1)>>, <<PinCtls, Val({"unsupported"})>>,
                                            <<HostCr4, Val(FALSE)>>}}
  \cup {I("vmwrite", Unmapped, \h0802, Val(1))}
  \cup {I(op, A, 0, Val(0)) : op \in {"vmxoff", "vmlaunch", "vmresume", "vmcall"}}
  \cup {I(op, A, e, Val(0)) : op \in {"invept", "invvpid"}, e \in {0, 5}}
=============================================================================
