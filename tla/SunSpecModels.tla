---------------------------- MODULE SunSpecModels ----------------------------
(***************************************************************************)
(* The catalog of generate.py: the layouts of the SunSpec models its maps  *)
(* are made of, the scale factors it chooses, and for every asset the      *)
(* chain of models and the model point behind each canonical point.        *)
(* (unit_scale, the SI-to-canonical factor, is part of the unit of the     *)
(* values in ModbusCodec, and the points of a model that only have a name  *)
(* to tell them apart are numbered.)                                       *)
(***************************************************************************)
EXTENDS Sequences, Integers, TLC

CONSTANT Absent   \* no scale factor

Point(name, type, size, sf) == [name |-> name, type |-> type, size |-> size, sf |-> sf]

\* One point per name, all of one type, size and scale factor.
Points(names, type, size, sf) ==
    [i \in DOMAIN names |-> Point(names[i], type, size, sf)]
U16(names, sf) == Points(names, "uint16", 1, sf)
I16(names, sf) == Points(names, "int16", 1, sf)
I32(names, sf) == Points(names, "int32", 2, sf)
U64(names, sf) == Points(names, "uint64", 4, sf)
Enum(names) == Points(names, "enum16", 1, Absent)
Time(names) == Points(names, "uint32", 2, Absent)
Scales(names) == Points(names, "sunssf", 1, Absent)

HeaderPoints == U16(<<"ID", "L">>, Absent)

\* Nameplate.
Common ==
    HeaderPoints \o Points(<<"Mn", "Md">>, "string", 16, Absent)
      \o Points(<<"Opt", "Vr">>, "string", 8, Absent) \o Points(<<"SN">>, "string", 16, Absent)
      \o U16(<<"DA">>, Absent) \o Points(<<"Pad">>, "pad", 1, Absent)

\* Energy counters, in all and of each phase.
Energies(phase) ==
    U64(<<"TotWhInj" \o phase, "TotWhAbs" \o phase>>, "TotWh_SF")
      \o U64(<<"TotVarhInj" \o phase, "TotVarhAbs" \o phase>>, "TotVarh_SF")
PowersOf(phase) ==
    I16(<<"W" \o phase>>, "W_SF") \o I16(<<"VA" \o phase>>, "VA_SF")
      \o I16(<<"Var" \o phase>>, "Var_SF") \o I16(<<"PF" \o phase>>, "PF_SF")
      \o I16(<<"A" \o phase>>, "A_SF")
Phase(n, line) ==
    PowersOf("L" \o n) \o U16(<<"V" \o line, "VL" \o n>>, "V_SF") \o Energies("L" \o n)

\* AC measurements.
Measurements ==
    HeaderPoints \o Enum(<<"ACType", "St", "InvSt", "ConnSt">>)
      \o Points(<<"Alrm", "DERMode">>, "bitfield32", 2, Absent)
      \o PowersOf("") \o U16(<<"LLV", "LNV">>, "V_SF") \o Points(<<"Hz">>, "uint32", 2, "Hz_SF")
      \o Energies("")
      \o I16(<<"TmpAmb", "TmpCab", "TmpSnk", "TmpTrns", "TmpSw", "TmpOt">>, "Tmp_SF")
      \o Phase("1", "L1L2") \o Phase("2", "L2L3") \o Phase("3", "L3L1")
      \o U16(<<"ThrotPct">>, Absent) \o Points(<<"ThrotSrc">>, "bitfield32", 2, Absent)
      \o Scales(<<"A_SF", "V_SF", "Hz_SF", "W_SF", "PF_SF", "VA_SF", "Var_SF",
                  "TotWh_SF", "TotVarh_SF", "Tmp_SF">>)
      \o Points(<<"MnAlrmInfo">>, "string", 32, Absent)

\* A power setpoint, absolute and in percent, with what it reverts to.
Setpoint(x) ==
    I32(<<x, x \o "Rvrt">>, x \o "_SF") \o I16(<<x \o "Pct", x \o "PctRvrt">>, x \o "Pct_SF")
      \o Enum(<<x \o "EnaRvrt">>) \o Time(<<x \o "RvrtTms", x \o "RvrtRem">>)
PowerFactor(x) ==
    Enum(<<x \o "Ena", x \o "EnaRvrt">>) \o Time(<<x \o "RvrtTms", x \o "RvrtRem">>)
PfGroup(x) == U16(<<x \o ".PF">>, "PF_SF") \o Enum(<<x \o ".Ext">>)

\* AC controls; the groups of the power factor come after its scale factors.
Controls ==
    HeaderPoints \o PowerFactor("PFWInj") \o PowerFactor("PFWAbs")
      \o Enum(<<"WMaxLimPctEna">>) \o U16(<<"WMaxLimPct", "WMaxLimPctRvrt">>, "WMaxLimPct_SF")
      \o Enum(<<"WMaxLimPctEnaRvrt">>) \o Time(<<"WMaxLimPctRvrtTms", "WMaxLimPctRvrtRem">>)
      \o Enum(<<"WSetEna", "WSetMod">>) \o Setpoint("WSet")
      \o Enum(<<"VarSetEna", "VarSetMod", "VarSetPri">>) \o Setpoint("VarSet")
      \o U16(<<"WRmp">>, Absent) \o Enum(<<"WRmpRef">>) \o U16(<<"VarRmp">>, Absent)
      \o Enum(<<"AntiIslEna">>)
      \o Scales(<<"PF_SF", "WMaxLimPct_SF", "WSet_SF", "WSetPct_SF", "VarSet_SF", "VarSetPct_SF">>)
      \o PfGroup("PFWInj") \o PfGroup("PFWInjRvrt") \o PfGroup("PFWAbs") \o PfGroup("PFWAbsRvrt")

\* Storage.
Storage ==
    HeaderPoints \o U16(<<"WHRtg", "WHAvail">>, "WH_SF") \o U16(<<"SoC", "SoH">>, "Pct_SF")
      \o Enum(<<"Sta">>) \o Scales(<<"WH_SF", "Pct_SF">>)

MODELS ==
    [mid \in {1, 701, 704, 713} |->
        CASE mid = 1 -> Common [] mid = 701 -> Measurements
          [] mid = 704 -> Controls [] mid = 713 -> Storage]

SfValues ==
    [W_SF |-> 2, Var_SF |-> 2, VA_SF |-> 2, A_SF |-> -1, V_SF |-> -1, Hz_SF |-> -2,
     PF_SF |-> -3, TotWh_SF |-> 0, TotVarh_SF |-> 0, Tmp_SF |-> -1, WMaxLimPct_SF |-> 0,
     WSet_SF |-> 0, WSetPct_SF |-> 0, VarSet_SF |-> 0, VarSetPct_SF |-> 0,
     WH_SF |-> 0, Pct_SF |-> -1]

Bound(model, point, rw) == [model |-> model, point |-> point, rw |-> rw]
Power ==
    [active_power_kw |-> Bound(701, "W", "r"), reactive_power_kvar |-> Bound(701, "Var", "r")]
Meter ==
    [chain |-> <<701>>,
     bind |-> [voltage_v |-> Bound(701, "LNV", "r"), frequency_hz |-> Bound(701, "Hz", "r"),
               current_a |-> Bound(701, "A", "r")] @@ Power]
Deratable ==
    [chain |-> <<1, 701, 704>>,
     bind |-> [derate_factor_setpoint |-> Bound(704, "WMaxLimPct", "rw")] @@ Power]
Bess ==
    [chain |-> <<1, 701, 704, 713>>,
     bind |-> [soc_pct |-> Bound(713, "SoC", "r"),
               active_power_setpoint_kw |-> Bound(704, "WSet", "rw"),
               reactive_power_setpoint_kvar |-> Bound(704, "VarSet", "rw"),
               active_power_setpoint_enable |-> Bound(704, "WSetEna", "rw"),
               reactive_power_setpoint_enable |-> Bound(704, "VarSetEna", "rw")] @@ Power]

\* The vendor points of the battery come after the chain: see CompareBindings.
ASSETS ==
    "bess-01" :> Bess @@ "pv-01" :> Deratable @@ "pcc-01" :> Meter
      @@ "fload-01" :> Deratable @@ "meter-01" :> Meter
=============================================================================
