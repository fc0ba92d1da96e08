SPECIFICATION Spec
CONSTANTS
    None = None
    SupportedWindows = {1, 2, 3}
    DefaultWindow = 2
    CreditPrice = 3
    StoragePrice = 2
    ForecastWindow = 2
    MaxForecastDays = 6
    DetailLimit = 1
    TopUsers = 1
    OtherUser = 9
    AiServices = {"CORTEX_SEARCH"}
    Currency = {"USD", "EUR"}
    Row <- SampleRows
    MaxRows = 3
    Today = 4
    SummaryWindow = 2
INVARIANTS
    RunningViewAnswers
    SectionsAgree
    RatesAreOrderFree
    ForecastRunsOut
PROPERTIES
    SettlingKeepsTheNumbers
CHECK_DEADLOCK FALSE
