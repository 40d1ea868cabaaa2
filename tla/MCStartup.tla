------------------------------ MODULE MCStartup ------------------------------
(***************************************************************************)
(* Settings for Startup: every field that decides what a process is built  *)
(* of, left out, empty or set, on the command line and in a file with a    *)
(* possible typing error.  Cache capacity and DoH URL are set in the file  *)
(* only.                                                                   *)
(***************************************************************************)
EXTENDS Startup, TLC

(* A setting that is left out or has one of the values.                    *)
Optional(field, values) == {<< >>} \cup {field :> v : v \in values}

SmallCli ==
    {a @@ b @@ c @@ d @@ e :
                        a \in Optional("enforce", {TRUE}),
                        b \in Optional("model_path", {"", "given"}),
                        c \in Optional("blocklist_url", {"", "given"}),
                        d \in Optional("log_path", {"", "given"}),
                        e \in Optional("quiet_scoring", {TRUE})}

SmallFile ==
    {a @@ b @@ c @@ d @@ e @@ f @@ g @@ h :
                             a \in Optional("enforce", {TRUE, FALSE}),
                             b \in Optional("model_path", {"", "given"}),
                             c \in Optional("cached", {FALSE}),
                             d \in Optional("upstream_doh_url", {"given"}),
                             e \in Optional("enforced", {TRUE}),
                             f \in Optional("score_logging", {TRUE, FALSE}),
                             g \in Optional("blocklist_url", {"", "given"}),
                             h \in Optional("log_path", {"", "given"})}

==============================================================================
