------------------------------ MODULE MCFiles ------------------------------
(***************************************************************************)
(* Six machines that share no state, explored side by side: a behaviour is *)
(* one of the endpoint lock, of the project lock, of the serial log, of    *)
(* the TEST button, of the form, or of a save of the configuration.        *)
(***************************************************************************)
EXTENDS EndpointLock, ProjectLock, SerialLog, InitTest, InitForm, ConfigSave

VARIABLE part

filesVars == <<part, vars, projectVars, logVars, testVars, formVars, configVars>>

\* The machines with several initial states; the others have one.
FilesInit ==
    /\ Init /\ ProjectInit /\ LogInit /\ TestInit /\ FormInit /\ ConfigInit
    /\ part \in {"endpoint", "project", "log", "test", "form", "config"}
    /\ part # "test" => form = {} /\ server = "none"
    /\ part # "form" => created
    /\ part # "config" => saved = Lists({})

FilesNext ==
    \/ part = "endpoint" /\ Next
          /\ UNCHANGED <<part, projectVars, logVars, testVars, formVars, configVars>>
    \/ part = "project" /\ ProjectNext
          /\ UNCHANGED <<part, vars, logVars, testVars, formVars, configVars>>
    \/ part = "log" /\ LogNext
          /\ UNCHANGED <<part, vars, projectVars, testVars, formVars, configVars>>
    \/ part = "test" /\ TestNext
          /\ UNCHANGED <<part, vars, projectVars, logVars, formVars, configVars>>
    \/ part = "form" /\ FormNext
          /\ UNCHANGED <<part, vars, projectVars, logVars, testVars, configVars>>
    \/ part = "config" /\ ConfigNext
          /\ UNCHANGED <<part, vars, projectVars, logVars, testVars, formVars>>

FilesSpec == FilesInit /\ [][FilesNext]_filesVars

\* The variables of the six modules have their types.
FilesTypeOK ==
    TypeOK /\ ProjectTypeOK /\ LogTypeOK /\ TestTypeOK /\ FormTypeOK /\ ConfigTypeOK
=============================================================================
