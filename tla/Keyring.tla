------------------------------- MODULE Keyring -------------------------------
(***************************************************************************)
(* The account's keys on this computer: the configuration file, the         *)
(* system's keychain, and the key agent, a background process that holds    *)
(* the unlocked keys for a time and that commands find through agent.json.  *)
(* Commands (li, uk, lk, lo, ak revoke, cd, an endpoint change, and any     *)
(* command that needs the keys) run one after the other; agents start,      *)
(* expire and stop in their own time.                                       *)
(* An account's name stands for its keys: a key pair matches if both halves *)
(* carry the same name.                                                     *)
(***************************************************************************)
EXTENDS Integers, FiniteSets, Absent

CONSTANTS
    Accounts,
    Hosts,          \* the servers an endpoint may name
    DefaultHost,
    Agents,         \* bound: agent processes
    MaxCommands,    \* bound: commands
    MaxMishaps,     \* bound: lost answers, killed agents, interrupted commands, together
    Relogin,        \* a login may go on over another one ("Continue anyway?")
    SlowSpawn       \* an agent may start after its command has stopped waiting for it

ASSUME HostAssumption == DefaultHost \in Hosts
ASSUME AccountsAssumption == None \notin Accounts
ASSUME GatesAssumption == Relogin \in BOOLEAN /\ SlowSpawn \in BOOLEAN

VARIABLES
    disk,       \* config.json
    chain,      \* the keychain: API key and device key, per host
    agentFile,  \* agent.json: the agent it names
    agents,     \* the agent processes
    cmd,        \* the command that runs
    commands,
    mishaps,
    wraps,      \* device keys made so far
    locked,     \* history: the last of uk, li, lk, lo to succeed was lk or lo
    torn        \* history: a command was interrupted between two of its writes

rvars == <<disk, chain, agentFile, agents, cmd, commands, mishaps, wraps, locked, torn>>
stores == <<disk, chain, wraps>>

\* api, keys, sign: whose API key, encryption keys and signing keys; wrap: the device key
\* they are wrapped with, 0 if with the password.
NoConfig == [host |-> DefaultHost, api |-> None, keys |-> None, sign |-> None, wrap |-> 0]
NoAgent == [at |-> "none", acct |-> None, sign |-> None, due |-> FALSE]
NoSecrets == [api |-> None, dev |-> 0]
Maybe == Accounts \cup {None}
Configs == [host : Hosts, api : Maybe, keys : Maybe, sign : Maybe, wrap : Nat]

\* cfg is the command's copy of the configuration; pub and priv its session's key pair, sign
\* its signing keys.
Command(name, who, cfg) ==
    [name |-> name, who |-> who, pc |-> "start", cfg |-> cfg, pub |-> None, priv |-> None,
     sign |-> None, dev |-> 0]
Names == {"li", "uk", "lk", "lo", "cd", "endpoint", "use"}
Pcs == {"start", "granted", "setup", "wrapped", "signing", "pair", "stop", "spawn", "await",
        "used", "signs", "clear", "unlink", "carry"}
Sessions == [name : Names, who : Accounts, pc : Pcs, cfg : Configs, pub : Maybe, priv : Maybe,
             sign : Maybe, dev : Nat]

ASSUME SessionsAssumption == None \notin Sessions

-----------------------------------------------------------------------------
(* Configuration and keychain.                                              *)

\* Load: the API key comes from the keychain if it has one for the host.
Load == [disk EXCEPT !.api = IF chain[disk.host].api # None THEN chain[disk.host].api ELSE @]

\* Save: the whole copy; the API key goes to the keychain.
Save(c) ==
    /\ disk' = [c EXCEPT !.api = None]
    /\ chain' = IF c.api = None THEN chain ELSE [chain EXCEPT ![c.host].api = c.api]

HasEncryptionKeys(c) == c.keys # None
HasSigningKeys(c) == c.sign # None

-----------------------------------------------------------------------------
(* The agent, as its clients see it.                                        *)

Listening(a) == agents[a].at \in {"serving", "told"}

\* ReadAgentFile, sendRequest: the agent that answers.  A file that has expired, or whose
\* agent does not accept, is removed.
Answers == agentFile # None /\ ~agents[agentFile].due /\ Listening(agentFile)
AfterAsking == IF Answers THEN agentFile ELSE None

\* RequestKeys: the key material of the agent that answers.
response(a) == [priv |-> agents[a].acct, sign |-> agents[a].sign]
RequestKeys == IF Answers THEN response(agentFile) ELSE [priv |-> None, sign |-> None]

\* RemoveAgentFile: whichever agent it names.
RemoveAgentFile == agentFile' = None

\* Shutdown: the agent is told, or the request is lost; the file goes in any case.
Tell(a) == [agents EXCEPT ![a].at = "told"]
Shutdown_KeepsFile ==
    IF Answers THEN agents' = Tell(agentFile) /\ UNCHANGED agentFile
    ELSE agentFile' = None /\ UNCHANGED agents
Shutdown ==
    /\ RemoveAgentFile
    /\ IF Answers THEN agents' = Tell(agentFile) ELSE UNCHANGED agents

-----------------------------------------------------------------------------
(* The agent's process.                                                     *)

\* serveListener: the file is written before the first request is taken.
Serve(a) ==
    /\ agents[a].at = "spawned"
    /\ agents' = [agents EXCEPT ![a].at = "serving"]
    /\ agentFile' = a
    /\ UNCHANGED <<stores, cmd, commands, mishaps, locked, torn>>

\* The time to live is over: the file has expired, and the timer is due.
Expire(a) ==
    /\ agents[a].at = "serving" /\ ~agents[a].due
    /\ agents' = [agents EXCEPT ![a].due = TRUE]
    /\ UNCHANGED <<stores, agentFile, cmd, commands, mishaps, locked, torn>>

\* shutdown(): by the timer, or 100 ms after it was told (which stopped the timer).
closeListener_TimerOnly(a) ==
    /\ agents[a].at = "serving" /\ agents[a].due
    /\ agents' = [agents EXCEPT ![a].at = "closed"]
    /\ UNCHANGED <<stores, agentFile, cmd, commands, mishaps, locked, torn>>
closeListener(a) ==
    /\ agents[a].at = "told" \/ (agents[a].at = "serving" /\ agents[a].due)
    /\ agents' = [agents EXCEPT ![a].at = "closed"]
    /\ UNCHANGED <<stores, agentFile, cmd, commands, mishaps, locked, torn>>

removeFile(a) ==
    /\ agents[a].at = "closed"
    /\ agents' = [agents EXCEPT ![a].at = "removed"]
    /\ RemoveAgentFile
    /\ UNCHANGED <<stores, cmd, commands, mishaps, locked, torn>>

wipe(a) ==
    /\ agents[a].at = "removed"
    /\ agents' = [agents EXCEPT ![a] = [NoAgent EXCEPT !.at = "wiped"]]
    /\ UNCHANGED <<stores, agentFile, cmd, commands, mishaps, locked, torn>>

\* The process is killed: its memory is gone, its file stays.
Kill(a) ==
    /\ agents[a].at \notin {"none", "wiped"} /\ mishaps < MaxMishaps
    /\ agents' = [agents EXCEPT ![a] = [NoAgent EXCEPT !.at = "wiped"]]
    /\ mishaps' = mishaps + 1
    /\ UNCHANGED <<stores, agentFile, cmd, commands, locked, torn>>

-----------------------------------------------------------------------------
(* Commands.                                                                *)

\* runLogin: over another login only when told to.
MayLogin_Always == TRUE
MayLogin == Load.api = None \/ Relogin

\* A command starts with the configuration as it is; all but li need a login (IsLoggedIn).
Start ==
    /\ cmd = None /\ commands < MaxCommands
    /\ \E name \in Names, who \in Accounts :
         /\ name = "li" => MayLogin
         /\ name # "li" => Load.api # None /\ who = Load.api
         /\ cmd' = Command(name, who, Load)
    /\ commands' = commands + 1
    /\ UNCHANGED <<stores, agentFile, agents, mishaps, locked, torn>>

Goto(pc) == cmd' = [cmd EXCEPT !.pc = pc]
Exit == cmd' = None
Is(name, pc) == cmd # None /\ cmd.name = name /\ cmd.pc = pc

\* A lost request or answer, within the bound.
Mishap == mishaps < MaxMishaps /\ mishaps' = mishaps + 1

\* The login is approved in the browser, or refused, or nobody answers in time.
pollDeviceToken ==
    /\ Is("li", "start")
    /\ Goto("granted") \/ Exit
    /\ UNCHANGED <<stores, agentFile, agents, commands, mishaps, locked, torn>>

\* finishLogin: the API key is saved first, over whatever keys the copy has.
SetAPIKey ==
    /\ Is("li", "granted")
    /\ LET c == [cmd.cfg EXCEPT !.api = cmd.who]
       IN  Save(c) /\ cmd' = [cmd EXCEPT !.cfg = c, !.pc = "setup"]
    /\ UNCHANGED <<agentFile, agents, commands, mishaps, wraps, locked, torn>>

\* ImportDeviceTransferredKeys: a new device key goes to the keychain, then the keys it
\* wraps to the file.  Without a transfer, or if it fails, setupE2EEKeys.
StoreE2EEDeviceKey ==
    /\ Is("li", "setup")
    /\ wraps' = wraps + 1
    /\ chain' = [chain EXCEPT ![cmd.cfg.host].dev = wraps + 1]
    /\ Goto("wrapped")
    /\ UNCHANGED <<disk, agentFile, agents, commands, mishaps, locked, torn>>

SetDeviceWrappedE2EEKeys ==
    /\ Is("li", "wrapped")
    /\ Save([cmd.cfg EXCEPT !.keys = cmd.who, !.sign = cmd.who, !.wrap = wraps])
    /\ Exit
    /\ UNCHANGED <<agentFile, agents, commands, mishaps, wraps, locked, torn>>

\* setupE2EEKeys: the account's keys come from the server, or are made and sent to it; or
\* neither is possible now.
SetEncryptionKeys ==
    /\ Is("li", "setup")
    /\ LET c == [cmd.cfg EXCEPT !.keys = cmd.who, !.wrap = 0]
       IN  Save(c) /\ cmd' = [cmd EXCEPT !.cfg = c, !.pc = "signing"]
    /\ UNCHANGED <<agentFile, agents, commands, mishaps, wraps, locked, torn>>

noKeySetup ==
    /\ Is("li", "setup")
    /\ cmd' = IF HasEncryptionKeys(cmd.cfg) THEN [cmd EXCEPT !.pc = "pair"] ELSE None
    /\ UNCHANGED <<stores, agentFile, agents, commands, mishaps, locked, torn>>

SetSigningKeys ==
    /\ Is("li", "signing")
    /\ LET c == [cmd.cfg EXCEPT !.sign = cmd.who]
       IN  Save(c) /\ cmd' = [cmd EXCEPT !.cfg = c, !.pc = "pair"]
    /\ UNCHANGED <<agentFile, agents, commands, mishaps, wraps, locked, torn>>

\* runUnlock, runLock: agent.IsRunning() first.
IsRunning ==
    /\ cmd # None /\ cmd.name \in {"uk", "lk"} /\ cmd.pc = "start"
    /\ agentFile' = AfterAsking
    /\ cmd' = CASE cmd.name = "uk" /\ Answers -> None
                [] cmd.name = "uk" /\ ~Answers -> [cmd EXCEPT !.pc = "pair"]
                [] cmd.name = "lk" /\ Answers -> [cmd EXCEPT !.pc = "stop"]
                [] OTHER -> None
    /\ UNCHANGED <<stores, agents, commands, mishaps, locked, torn>>

\* keyPairLocked: the public half from the configuration; the private one from the agent,
\* from the keychain if the keys are wrapped for this device, or by the password.
FromConfig ==
    IF cmd.cfg.wrap = 0 THEN cmd.cfg.keys
    ELSE IF chain[cmd.cfg.host].dev = cmd.cfg.wrap THEN cmd.cfg.keys ELSE None

\* The signing keys come along: the agent's, if it has any; or those of the configuration
\* that the key which opened the private key opens as well.
hydrateSigningFromAgent == RequestKeys.sign
hydrateSigningFromConfigWithPDK ==
    IF HasSigningKeys(cmd.cfg) /\ cmd.cfg.sign = cmd.cfg.keys THEN cmd.cfg.sign ELSE None

keyPairLocked ==
    /\ cmd # None
    /\ cmd.pc = "pair" \/ Is("use", "start")
    /\ LET agent == RequestKeys.priv # None
           priv == IF agent THEN RequestKeys.priv ELSE FromConfig
       IN  IF ~HasEncryptionKeys(cmd.cfg) THEN Exit /\ UNCHANGED agentFile
           ELSE /\ agentFile' = AfterAsking
                /\ IF priv = None THEN Exit
                   ELSE cmd' = [cmd EXCEPT
                            !.pub = cmd.cfg.keys, !.priv = priv,
                            !.sign = IF agent THEN hydrateSigningFromAgent
                                     ELSE hydrateSigningFromConfigWithPDK,
                            !.pc = IF cmd.name = "use" THEN "used" ELSE "stop"]
    /\ UNCHANGED <<stores, agents, commands, mishaps, locked, torn>>

\* A command that signs: ErrNoSigningKeys, ErrSigningUnlockFailed, or the session's keys.
signingKeysLocked ==
    /\ Is("use", "used")
    /\ IF cmd.sign # None THEN Goto("signs") ELSE Exit
    /\ UNCHANGED <<stores, agentFile, agents, commands, mishaps, locked, torn>>

\* The command has done its work: ClearCachedKey.
ClearCachedKey ==
    /\ Is("use", "used") \/ Is("use", "signs")
    /\ Exit
    /\ UNCHANGED <<stores, agentFile, agents, commands, mishaps, locked, torn>>

\* agent.Shutdown(), by lk, lo (runAPIKeyRevoke likewise) and before a spawn.
stopAgent ==
    /\ cmd # None
    /\ cmd.pc = "stop" \/ Is("lo", "start")
    /\ Shutdown
    /\ cmd' = CASE cmd.name = "lk" -> None
                [] cmd.name = "lo" -> [cmd EXCEPT !.pc = "clear"]
                [] OTHER -> [cmd EXCEPT !.pc = "spawn"]
    /\ locked' = (locked \/ cmd.name = "lk")
    /\ UNCHANGED <<stores, commands, mishaps, torn>>

\* It is lost: lk says so, the others do not look.
stopLost ==
    /\ cmd # None
    /\ cmd.pc = "stop" \/ Is("lo", "start")
    /\ Mishap /\ RemoveAgentFile
    /\ cmd' = CASE cmd.name = "lk" -> None
                [] cmd.name = "lo" -> [cmd EXCEPT !.pc = "clear"]
                [] OTHER -> [cmd EXCEPT !.pc = "spawn"]
    /\ UNCHANGED <<stores, agents, commands, locked, torn>>

\* SpawnBackground, with the session's keys.
Free == {a \in Agents : agents[a].at = "none"}
SpawnBackground ==
    /\ cmd # None /\ cmd.pc = "spawn"
    /\ IF Free = {} THEN Exit /\ UNCHANGED <<agents, locked>>
       ELSE /\ agents' = [agents EXCEPT ![CHOOSE a \in Free : TRUE] =
                            [at |-> "spawned", acct |-> cmd.priv, sign |-> cmd.sign, due |-> FALSE]]
            /\ Goto("await")
            /\ locked' = FALSE
    /\ UNCHANGED <<stores, agentFile, commands, mishaps, torn>>

\* StartAgentForKeys: ten pings.  It gives up without an answer.
Started == SlowSpawn \/ \A a \in Agents : agents[a].at # "spawned"
StartAgentForKeys ==
    /\ cmd # None /\ cmd.pc = "await"
    /\ Answers \/ Started
    /\ agentFile' = AfterAsking
    /\ Exit
    /\ UNCHANGED <<stores, agents, commands, mishaps, locked, torn>>

\* config.Clear: both secrets, then the file.
deleteSecrets ==
    /\ Is("lo", "clear")
    /\ chain' = [chain EXCEPT ![cmd.cfg.host] = NoSecrets]
    /\ Goto("unlink")
    /\ UNCHANGED <<disk, agentFile, agents, commands, mishaps, wraps, locked, torn>>

Clear ==
    /\ Is("lo", "unlink")
    /\ disk' = NoConfig
    /\ Exit
    /\ locked' = TRUE
    /\ UNCHANGED <<chain, wraps, agentFile, agents, commands, mishaps, torn>>

\* SetCwd (and every other setting): the whole copy is saved.
SetCwd ==
    /\ Is("cd", "start")
    /\ Save(cmd.cfg)
    /\ Exit
    /\ UNCHANGED <<wraps, agentFile, agents, commands, mishaps, locked, torn>>

\* SetEndpoint to another host: the old host's secrets go, the copy is saved, and the
\* device key it read first is stored for the new host.
SetEndpoint ==
    /\ Is("endpoint", "start")
    /\ \E h \in Hosts \ {cmd.cfg.host} :
         /\ disk' = [cmd.cfg EXCEPT !.host = h, !.api = None]
         /\ chain' = [chain EXCEPT ![cmd.cfg.host] = NoSecrets, ![h].api = cmd.cfg.api]
    /\ cmd' = [cmd EXCEPT !.dev = chain[cmd.cfg.host].dev, !.pc = "carry"]
    /\ UNCHANGED <<wraps, agentFile, agents, commands, mishaps, locked, torn>>

storeDeviceKey_Not(k) == UNCHANGED chain
storeDeviceKey(k) == chain' = IF k = 0 THEN chain ELSE [chain EXCEPT ![disk.host].dev = k]
carryDeviceKey ==
    /\ Is("endpoint", "carry")
    /\ storeDeviceKey(cmd.dev)
    /\ Exit
    /\ UNCHANGED <<disk, wraps, agentFile, agents, commands, mishaps, locked, torn>>

\* Ctrl-C, or the command is killed.
interruptCommand ==
    /\ cmd # None /\ Mishap /\ Started
    /\ Exit
    /\ torn' = (torn \/ cmd.pc \in {"wrapped", "unlink", "carry"})
    /\ UNCHANGED <<stores, agentFile, agents, commands, locked>>

-----------------------------------------------------------------------------
RInit ==
    /\ disk = NoConfig /\ chain = [h \in Hosts |-> NoSecrets]
    /\ agentFile = None /\ agents = [a \in Agents |-> NoAgent]
    /\ cmd = None /\ commands = 0 /\ mishaps = 0 /\ wraps = 0
    /\ locked = FALSE /\ torn = FALSE

AgentStep(a) == Serve(a) \/ Expire(a) \/ closeListener(a) \/ removeFile(a) \/ wipe(a)
CommandStep ==
    \/ pollDeviceToken \/ SetAPIKey \/ StoreE2EEDeviceKey \/ SetDeviceWrappedE2EEKeys \/ SetEncryptionKeys
    \/ noKeySetup \/ SetSigningKeys \/ IsRunning \/ keyPairLocked
    \/ signingKeysLocked \/ ClearCachedKey
    \/ stopAgent \/ SpawnBackground \/ StartAgentForKeys \/ deleteSecrets \/ Clear
    \/ SetCwd \/ SetEndpoint \/ carryDeviceKey

RNext ==
    \/ \E a \in Agents : AgentStep(a) \/ Kill(a)
    \/ Start \/ CommandStep \/ stopLost \/ interruptCommand

RSpec == RInit /\ [][RNext]_rvars

\* Time passes for an agent: it starts, its time to live ends, and it stops.
RFairness == \A a \in Agents : WF_rvars(AgentStep(a))

-----------------------------------------------------------------------------
(* Properties.                                                              *)

\* The configuration, the agents and their file have the values the code gives them; no
\* save leaves the API key in the configuration file (Save moves it to the secret store).
RTypeOK ==
    /\ disk.host \in Hosts /\ {disk.keys, disk.sign} \subseteq Accounts \cup {None}
    /\ disk.api = None /\ agentFile \in Agents \cup {None}
    /\ \A a \in Agents : agents[a].acct \in Accounts \cup {None}

\* A session pairs the public key of the configuration with a private key and signing keys
\* of the same account, although these come from an agent that may have been started,
\* stopped or orphaned under an earlier login (keyPairLocked does not compare them).
PairMatches == cmd # None => cmd.pub = cmd.priv /\ cmd.sign \in {None, cmd.pub}

\* After lk has said "Locked", or lo is done, no command gets keys from an agent until the
\* next unlock, although the agent that was told goes on accepting for 100 ms.
LockHolds == locked => ~Answers

\* While no command is in the middle of its writes, and none was interrupted there, keys
\* that are wrapped for this device can be unwrapped: after a login, a change of endpoint,
\* or any other save of the configuration.
DeviceKeyOpens ==
    (cmd = None /\ ~torn /\ disk.wrap # 0) => chain[disk.host].dev = disk.wrap

\* No agent keeps its keys forever: whether it was told to stop, lost its file to another
\* one, or was forgotten, it wipes them (serveListener, wipe).
AgentsWiped == \A a \in Agents : []<>(agents[a].acct = None)
=============================================================================
