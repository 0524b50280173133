---------------------------- MODULE MCSpecFields ----------------------------
(***************************************************************************)
(* SpecFields with a few texts, specs and clusters.                        *)
(***************************************************************************)
EXTENDS SpecFields, TLC

MCTexts == {"", "a", "b", "a,b", "0", "3", "4", "true", "True", "false", "Kubernetes",
            "ManagedKubernetes", "-x --node-cidr-mask 3", "--node-cidr-mask 4",
            "--node-cidr-mask", "--node-cidr-mask=3 a", "-x", "--node-cidr-mask=3"}

MCSplit == [t \in MCTexts |-> IF t = "a,b" THEN <<"a", "b">> ELSE <<t>>]

MCWords == [t \in MCTexts |->
              CASE t = "-x --node-cidr-mask 3" -> <<"-x", "--node-cidr-mask", "3">>
                [] t = "--node-cidr-mask 4"    -> <<"--node-cidr-mask", "4">>
                [] t = "--node-cidr-mask=3 a"  -> <<"--node-cidr-mask=3", "a">>
                [] OTHER                       -> <<t>>]

MCMaskWords == {"--node-cidr-mask", "--node-cidr-mask=3"}

MCAtoi == [t \in MCTexts |-> CASE t = "3" -> 3 [] t = "4" -> 4
                                [] t = "0" -> 0 [] OTHER -> NotNumber]

\* A spec all of whose texts, numbers, flags and lists are the given ones.
Uniform(text, number, flag, list, type) ==
  [ClusterType |-> type]
    @@ [f \in TextFields |-> text] @@ [f \in NumberFields |-> number]
    @@ [f \in FlagFields |-> flag] @@ [f \in ListFields |-> list]

Bare(type) == [Name |-> "a", RegionID |-> "a", KeyPair |-> "a", SnatEntry |-> TRUE]
                @@ Uniform("", 0, FALSE, <<>>, type)

MCSpecs == {[Uniform("a", 3, TRUE, <<"a", "b">>, "Kubernetes") EXCEPT !.Imported = FALSE],
            Uniform("a", 0, FALSE, <<"a">>, "ManagedKubernetes"),
            Bare("ManagedKubernetes"),
            [Bare("Kubernetes") EXCEPT !.SnatEntry = FALSE],
            [Bare("") EXCEPT !.Imported = TRUE],
            [Bare("") EXCEPT !.Imported = TRUE, !.LoginPassword = "b"]}

\* A cluster that reports the given texts.
Reports(type, text, number, list, flag, args) ==
  [top |-> [k \in {"vswitch_id"} \cup {TopText[f] : f \in DOMAIN TopText} |->
              IF k = "cluster_type" THEN type ELSE text],
   params |-> [SetUpArgs |-> args, SNatEntry |-> flag, Eip |-> flag,
               MasterAutoRenew |-> flag, MasterInstanceTypes |-> list,
               MasterVSwitchIds |-> list]
                @@ [k \in {ParamText[f] : f \in DOMAIN ParamText} \cup MasterText |-> text]
                @@ [k \in MasterNumber |-> number],
   outputs |-> text]

Of(type) ==
  {Reports(type, "a", "3", "a,b", "True", "-x --node-cidr-mask 3"),
   Reports(type, "a", "3", "a,b", "true", "--node-cidr-mask 4"),
   Reports(type, "a", "", "a", "false", "--node-cidr-mask"),
   [Reports(type, "a", "b", "a", "false", "--node-cidr-mask=3 a")
      EXCEPT !.params.SNatEntry = "true", !.top.vswitch_id = "a,b", !.outputs = Absent]}

MCClusters ==
  Of("Kubernetes") \cup Of("ManagedKubernetes")
    \cup {[Reports("Kubernetes", "b", "3", "b", "true", "") EXCEPT
             !.top = [k \in DOMAIN @ \ {"zone_id"} |-> @[k]],
             !.params = [k \in DOMAIN @ \ {"ResourceGroupId", "Eip"} |-> @[k]]],
          [Reports("Kubernetes", "b", "3", "b", "true", "") EXCEPT !.params.VpcId = NotText],
          [Reports("ManagedKubernetes", "b", "3", "b", "true", "") EXCEPT
             !.params.MasterCount = NotText]}
=============================================================================
