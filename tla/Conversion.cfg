SPECIFICATION Spec
CONSTANTS
    EditFields = {"cpu.reserved", "hugepages", "hugepages.pages", "machineConfigLabel", "net", "net.devices", "globallyDisableIrqLoadBalancing"}
    Values = {"a", "b"}
PROPERTY CommonFieldsKept
PROPERTY IrqStaysDisabled
