----------------------------- MODULE MCServices -----------------------------
(***************************************************************************)
(* Small instances of the services beside the account pools for TLC.  They *)
(* share no state, so one is explored at a time: the initial state chooses *)
(* which, and leaves the others at rest.                                   *)
(***************************************************************************)
EXTENDS ClaudeVault, ClaudeSettings, DataFiles, ProviderCards,
        Tunnel, Workspaces, SignIn, KeychainItem, LoginPlaces, CodexConfig, TLC

VARIABLE service

Services == {"vault", "settings", "files", "cards", "tunnel", "workspaces",
             "sign-in", "item", "places", "config"}

\* One Location for each way to keep a login that differs: the Keychain or not, and
\* whether the two configuration files are one.
Plain(e) == ~e.copool /\ e.config \in {Unset, "config"} /\ e.storage = Unset
            /\ e.oauth \in {Unset, "foreign"} /\ e.settings = Unset /\ e.macOS
            /\ (e.user \/ (e.config = Unset /\ e.oauth = Unset))
ServicesInit ==
  /\ service \in Services
  /\ VaultInit /\ (service # "vault" => given = Empty /\ item = None /\ shows = "item")
  /\ SettingsInit /\ (service # "settings" => \A k \in Keys : main[k] = Absent)
  /\ \A p \in Relays : paths[p] = CHOOSE f \in Files : TRUE
  /\ DataInit /\ (service # "files" => changes = 0)
  /\ CardsInit /\ (service # "cards" => pool = "codex")
  /\ TunnelInit
  /\ SpacesInit /\ (service # "workspaces" => card = [w \in Spaces |-> "none"])
  /\ SignInInit
  /\ ItemInit /\ (service # "item" => document # ForeignItem)
  /\ place \in IF service = "places" THEN {Resolve(e) : e \in {x \in EnvironmentOf : Plain(x)}}
               ELSE {Resolve(CHOOSE e \in EnvironmentOf : e.copool)}
  /\ PlacesInit
  /\ service # "places" => credentials = NoLogin /\ \A d \in ConfigDirs : named[d] = NoLogin
  /\ IF service = "config" THEN ConfigInit ELSE config = <<>> /\ ConfigInit

ServicesNext ==
  /\ UNCHANGED service
  /\ IF service = "vault" THEN VaultNext ELSE UNCHANGED vaultVars
  /\ IF service = "settings" THEN SettingsNext ELSE UNCHANGED settingsVars
  /\ IF service = "files" THEN DataNext ELSE UNCHANGED dataVars
  /\ IF service = "cards" THEN CardsNext ELSE UNCHANGED cardVars
  /\ IF service = "tunnel" THEN TunnelNext ELSE UNCHANGED tunnelVars
  /\ IF service = "workspaces" THEN SpacesNext ELSE UNCHANGED spaceVars
  /\ IF service = "sign-in" THEN SignInNext ELSE UNCHANGED signInVars
  /\ IF service = "item" THEN ItemNext ELSE UNCHANGED itemVars
  /\ IF service = "places" THEN PlacesNext ELSE UNCHANGED placeVars
  /\ IF service = "config" THEN ConfigNext ELSE UNCHANGED configVars

serviceVars == <<service, vaultVars, settingsVars, dataVars, cardVars,
                 tunnelVars, spaceVars, signInVars, itemVars,
                 placeVars, configVars>>
ServicesSpec == ServicesInit /\ [][ServicesNext]_serviceVars

(* Every variable of the service explored keeps its type. *)
ServicesTypeOK ==
  CASE service = "vault" -> VaultTypeOK      [] service = "settings" -> SettingsTypeOK
    [] service = "files" -> DataTypeOK
    [] service = "cards" -> CardsTypeOK      [] service = "tunnel" -> TunnelTypeOK
    [] service = "workspaces" -> SpacesTypeOK [] service = "sign-in" -> SignInTypeOK
    [] service = "item" -> ItemTypeOK        [] service = "places" -> PlacesTypeOK
    [] service = "config" -> ConfigTypeOK
=============================================================================
