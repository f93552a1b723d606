SPECIFICATION Spec
CONSTANTS
    b1 = b1
    b2 = b2
    pro = pro
    team = team
    q1 = q1
    q2 = q2
    t1 = t1
    t2 = t2
    c1 = c1
    c2 = c2
    u = u
    root = root
    orgA = orgA
    orgB = orgB
    k1 = k1
    slug = slug
    nobody = nobody
    Providers <- MCProviders
    Buyers <- MCBuyers
    PaidPlans <- MCPaidPlans
    MaxSessions = 2
    MaxOwn = 2
    Tenants <- MCTenants
    Plans <- MCPlans
    FreePlan = "free"
    MaxEdits = 1
    MaxRowsOfSubs = 3
    MaxAsked = 4
    GrantSources <- MCGrantSources
    CapValues <- MCCapValues
    PlanCap = 3
    MaxGrants = 2
    MaxDays = 1
    PriceList <- MCPriceList
    PeriodLength = 7
    Quantum = 1000000
    LastSecond = 15
    MaxSwitches = 2
    FlagUsers <- MCFlagUsers
    BucketOf <- MCBucketOf
    Percentages <- MCPercentages
    Admins <- MCAdmins
    MaxFlagEdits = 4
    Emails <- MCEmails
    Subjects <- MCSubjects
    Nil = nobody
    Attempts <- MCAttempts
    Tabs <- MCTabs
    Settings <- MCSettings
    MaxStored = 2
    MaxBegun = 3
    Orgs <- MCOrgs
    Folk <- MCFolk
    Operator = root
    KeyOrg = orgA
    Conns <- MCConns
    Asks <- MCAsks
    NoOne = nobody
    MaxAsks = 2
    Slugs <- MCSlugs
    Callers <- MCCallers
    MaxAgentCalls = 5
    Mailers <- MCMailers
    Editors <- MCEditors
    MaxMails = 2
    MaxPatches = 2
INVARIANTS
    
    
    
    
    TenantScopeSound
    

    
CHECK_DEADLOCK FALSE
