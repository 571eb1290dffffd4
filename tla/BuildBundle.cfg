SPECIFICATION BSpec
CONSTANTS
    plugin = plugin
    sdk = sdk
    dep = dep
    Names = {plugin, sdk, dep}
    PluginWheel = plugin
    SdkWheel = sdk
    Contents = {1, 2}
    Metadata = 0
    MaxArtifacts = 4
INVARIANT BundleIsTrue
PROPERTY OldSurvives
CHECK_DEADLOCK FALSE
